---- MODULE Spec2Model ----
(***************************************************************************)
(* CueForge native audio engine: AudioCue playback state machine,          *)
(* MatrixMixer crosspoint matrix, OutputPatch device patch and the         *)
(* AudioEngine cue registry with its device callback.                      *)
(*                                                                         *)
(* Numbers.  Linear gains, fader values and sample amplitudes are fixed    *)
(* point integers in which Unity stands for 1.0f.  Cursor positions and    *)
(* start times are whole frames.                                           *)
(***************************************************************************)
EXTENDS Integers, Sequences, FiniteSets, TLC

VARIABLES
    cue,        \* one AudioCue object driven directly through its own API
    cues,       \* AudioEngine::cues, the registry  id -> AudioCue
    engine,     \* AudioEngine: callback attached, patches, counters
    mixer,      \* one MatrixMixer object driven directly through its own API
    patch,      \* one OutputPatch object
    out,        \* the block written by the last processAudio / processAudioBlock
    last,       \* the last operation called, its target and its return value
    hist        \* history: what was requested since the last play / level change

vars == <<cue, cues, engine, mixer, patch, out, last, hist>>

(***************************************************************************)
(* Bounds of the model.                                                    *)
(***************************************************************************)
\* frames in the longest audio file
MaxLen == 3
\* largest device block (numSamples of one callback)
MaxBlock == 2
\* output channels of a cue matrix / bus width (64 in the program)
BusWidth == 2
\* samples of the volume fader's ramp (0.1 s * 44100 Hz = 4410 in the program)
FadeSteps == 2
\* cap on the dropout counter, to keep the counters finite
MaxDropouts == 1

\* 1.0f in fixed point
Unity == 1000

Min(a, b) == IF a < b THEN a ELSE b
Max(a, b) == IF a > b THEN a ELSE b
\* C++ division of numbers: the quotient truncated toward zero
Div(a, b) == IF a >= 0 THEN a \div b ELSE -((-a) \div b)
\* product of two fixed point numbers
Mul(a, b) == Div(a * b, Unity)

(***************************************************************************)
(* Audio files on disk, as the decoder sees them.                          *)
(***************************************************************************)
Paths == {"", "missing", "corrupt", "mono", "stereo"}

FileExists(path) == path \in {"corrupt", "mono", "stereo"}
FileReadable(path) == path \in {"mono", "stereo"}
FileChannels(path) == IF path = "stereo" THEN 2 ELSE 1
FileLength(path) == IF path = "stereo" THEN MaxLen ELSE MaxLen - 1
\* the decoded sample of a channel at a frame: never silent, different per frame
FileSample(ch, frame) == Unity - 100 * frame - 10 * ch

Silence(nCh, n) == [ch \in 0..(nCh - 1) |-> [k \in 1..n |-> 0]]
IsSilent(block) == \A ch \in DOMAIN block : \A k \in DOMAIN block[ch] : block[ch][k] = 0

(***************************************************************************)
(* juce::SmoothedValue<float> (linear), the cue's volumeFader.             *)
(***************************************************************************)
SV_setCurrentAndTargetValue(f, v) ==
    [f EXCEPT !.currentValue = v, !.target = v, !.countdown = 0]

SV_reset(f, steps) ==
    SV_setCurrentAndTargetValue([f EXCEPT !.stepsToTarget = steps], f.target)

SV_setTargetValue(f, v) ==
    IF v = f.target THEN f
    ELSE IF f.stepsToTarget <= 0 THEN SV_setCurrentAndTargetValue(f, v)
    ELSE [f EXCEPT !.target = v,
                   !.countdown = f.stepsToTarget,
                   !.step = Div(v - f.currentValue, f.stepsToTarget)]

SV_getNextValue(f) ==
    IF f.countdown <= 0 THEN f
    ELSE IF f.countdown - 1 > 0
         THEN [f EXCEPT !.countdown = @ - 1, !.currentValue = @ + f.step]
         ELSE [f EXCEPT !.countdown = 0, !.currentValue = f.target]

\* the value getNextValue returns, given the fader it leaves behind
SV_value(f) == IF f.countdown <= 0 THEN f.target ELSE f.currentValue

RECURSIVE SV_skip(_, _)
SV_skip(f, n) == IF n <= 0 THEN f ELSE SV_skip(SV_getNextValue(f), n - 1)

NewFader ==
    SV_setCurrentAndTargetValue(
        SV_reset([currentValue |-> 0, target |-> 0, countdown |-> 0,
                  step |-> 0, stepsToTarget |-> 0], FadeSteps),
        Unity)

(***************************************************************************)
(* MatrixMixer.                                                            *)
(***************************************************************************)
\* the levels in dB that callers pass
DbValues == {-120, -100, -6, 0, 12, 20}

\* 10^(db/20) in fixed point
Pow10Db(db) ==
    CASE db = -120 -> 0
      [] db = -100 -> 0
      [] db = -40  -> 10
      [] db = -20  -> 100
      [] db = -12  -> 251
      [] db = -6   -> 501
      [] db = 0    -> Unity
      [] db = 6    -> 1995
      [] db = 12   -> 3981
      [] db = 20   -> 10000

Mixer_dbToGain_earlyFloor(db) == IF db <= -40 THEN 0 ELSE Pow10Db(db)

Mixer_dbToGain(db) == IF db <= -100 THEN 0 ELSE Pow10Db(db)

\* the levels at which the logarithm is tabulated
LogGrid == {-40, -20, -12, -6, 0, 6, 12, 20}

Distance(a, b) == IF a >= b THEN a - b ELSE b - a

\* 20*log10(gain), to the nearest tabulated level
Mixer_gainToDb(gain) ==
    IF gain <= 0 THEN -100
    ELSE CHOOSE d \in LogGrid :
            \A e \in LogGrid :
                \/ Distance(Pow10Db(d), gain) < Distance(Pow10Db(e), gain)
                \/ Distance(Pow10Db(d), gain) = Distance(Pow10Db(e), gain) /\ d <= e

Mixer_isValidInput(m, input) == input >= 0 /\ input < m.numInputChannels
Mixer_isValidOutput(m, output) == output >= 0 /\ output < m.numOutputChannels

\* mainLevel's initial value
MainLevelDefault == Unity

\* mutant: setSize that resizes the trims without clearing them first
Mixer_setSize_keepTrims(m, numInputs, numOutputs) ==
    LET ni == Max(0, numInputs)
        no == Max(0, numOutputs)
    IN  [m EXCEPT !.numInputChannels = ni,
                  !.numOutputChannels = no,
                  !.crosspoints = [i \in 0..(ni - 1) |-> [o \in 0..(no - 1) |-> 0]],
                  !.inputLevels = [i \in 0..(ni - 1) |->
                                      IF i \in DOMAIN m.inputLevels THEN m.inputLevels[i]
                                      ELSE Unity],
                  !.outputLevels = [o \in 0..(no - 1) |->
                                       IF o \in DOMAIN m.outputLevels THEN m.outputLevels[o]
                                       ELSE Unity],
                  !.inputMutes = [i \in 0..(ni - 1) |-> FALSE],
                  !.inputSolos = [i \in 0..(ni - 1) |-> FALSE],
                  !.outputMutes = [o \in 0..(no - 1) |-> FALSE],
                  !.outputSolos = [o \in 0..(no - 1) |-> FALSE]]

Mixer_setSize(m, numInputs, numOutputs) ==
    LET ni == Max(0, numInputs)
        no == Max(0, numOutputs)
    IN  [m EXCEPT !.numInputChannels = ni,
                  !.numOutputChannels = no,
                  !.crosspoints = [i \in 0..(ni - 1) |-> [o \in 0..(no - 1) |-> 0]],
                  !.inputLevels = [i \in 0..(ni - 1) |-> Unity],
                  !.outputLevels = [o \in 0..(no - 1) |-> Unity],
                  !.inputMutes = [i \in 0..(ni - 1) |-> FALSE],
                  !.inputSolos = [i \in 0..(ni - 1) |-> FALSE],
                  !.outputMutes = [o \in 0..(no - 1) |-> FALSE],
                  !.outputSolos = [o \in 0..(no - 1) |-> FALSE]]

NewMixer(numInputs, numOutputs) ==
    Mixer_setSize([numInputChannels |-> 0, numOutputChannels |-> 0,
                   crosspoints |-> <<>>, inputLevels |-> <<>>, outputLevels |-> <<>>,
                   inputMutes |-> <<>>, inputSolos |-> <<>>,
                   outputMutes |-> <<>>, outputSolos |-> <<>>,
                   mainLevel |-> MainLevelDefault],
                  numInputs, numOutputs)

\* mutant: setCrosspoint that brings the indices into range
Mixer_setCrosspoint_clamped(m, input, output, levelDb) ==
    [m EXCEPT !.crosspoints[Max(0, Min(m.numInputChannels - 1, input))]
                           [Max(0, Min(m.numOutputChannels - 1, output))] =
                  Mixer_dbToGain(levelDb)]

Mixer_setCrosspoint(m, input, output, levelDb) ==
    IF Mixer_isValidInput(m, input) /\ Mixer_isValidOutput(m, output)
    THEN [m EXCEPT !.crosspoints[input][output] = Mixer_dbToGain(levelDb)]
    ELSE m

Mixer_getCrosspoint(m, input, output) ==
    IF Mixer_isValidInput(m, input) /\ Mixer_isValidOutput(m, output)
    THEN Mixer_gainToDb(m.crosspoints[input][output])
    ELSE -100

Mixer_setInputLevel(m, input, levelDb) ==
    IF Mixer_isValidInput(m, input)
    THEN [m EXCEPT !.inputLevels[input] = Mixer_dbToGain(levelDb)]
    ELSE m

Mixer_setOutputLevel(m, output, levelDb) ==
    IF Mixer_isValidOutput(m, output)
    THEN [m EXCEPT !.outputLevels[output] = Mixer_dbToGain(levelDb)]
    ELSE m

Mixer_setMainLevel(m, levelDb) == [m EXCEPT !.mainLevel = Mixer_dbToGain(levelDb)]

Mixer_setInputMute(m, input, muted) ==
    IF Mixer_isValidInput(m, input) THEN [m EXCEPT !.inputMutes[input] = muted] ELSE m

Mixer_setOutputMute(m, output, muted) ==
    IF Mixer_isValidOutput(m, output) THEN [m EXCEPT !.outputMutes[output] = muted] ELSE m

Mixer_setInputSolo(m, input, soloed) ==
    IF Mixer_isValidInput(m, input) THEN [m EXCEPT !.inputSolos[input] = soloed] ELSE m

Mixer_setOutputSolo(m, output, soloed) ==
    IF Mixer_isValidOutput(m, output) THEN [m EXCEPT !.outputSolos[output] = soloed] ELSE m

Mixer_anySoloedInputs(m) == \E i \in 0..(m.numInputChannels - 1) : m.inputSolos[i]
Mixer_anySoloedOutputs(m) == \E o \in 0..(m.numOutputChannels - 1) : m.outputSolos[o]

\* inputGain * crosspointGain * outputGain * mainGain of one route
Mixer_totalGain(m, input, output) ==
    Mul(Mul(Mul(m.inputLevels[input], m.crosspoints[input][output]),
            m.outputLevels[output]),
        m.mainLevel)

Mixer_skipsInput_soloOnly(m, input) ==
    Mixer_anySoloedInputs(m) /\ ~m.inputSolos[input]

\* the input loop of processAudio skips this input
Mixer_skipsInput(m, input) ==
    \/ m.inputMutes[input]
    \/ Mixer_anySoloedInputs(m) /\ ~m.inputSolos[input]

Mixer_skipsOutput_muteOnly(m, output) == m.outputMutes[output]

\* the output loop of processAudio skips this output
Mixer_skipsOutput(m, output) ==
    \/ m.outputMutes[output]
    \/ Mixer_anySoloedOutputs(m) /\ ~m.outputSolos[output]

\* processAudio reaches "Mix input to output" for this route
Mixer_mixesRoute(m, input, output) ==
    /\ ~Mixer_skipsInput(m, input)
    /\ ~Mixer_skipsOutput(m, output)
    /\ m.crosspoints[input][output] # 0
    /\ Mixer_totalGain(m, input, output) # 0

\* the routes mixed in a call with these buffer widths
Mixer_routes(m, inChannels, outChannels) ==
    {r \in (0..(Min(m.numInputChannels, inChannels) - 1))
           \X (0..(Min(m.numOutputChannels, outChannels) - 1)) :
        Mixer_mixesRoute(m, r[1], r[2])}

RECURSIVE SumOver(_, _, _, _)
\* sum of inBlock[i][k] * totalGain over the mixed routes into one output
SumOver(m, routes, inBlock, outk) ==
    IF routes = {} THEN 0
    ELSE LET r == CHOOSE x \in routes : TRUE
         IN  Mul(inBlock[r[1]][outk], Mixer_totalGain(m, r[1], r[2]))
             + SumOver(m, routes \ {r}, inBlock, outk)

\* processAudio(inputBuffer, outputBuffer, 0, numSamples): the output buffer
Mixer_processAudio(m, inBlock, inChannels, outChannels, numSamples) ==
    LET routes == Mixer_routes(m, inChannels, outChannels)
    IN  [o \in 0..(outChannels - 1) |->
            [k \in 1..numSamples |->
                SumOver(m, {r \in routes : r[2] = o}, inBlock, k)]]

\* mutant: calculateGain that leaves the solo flags out
Mixer_calculateGain_noSolo(m, input, output) ==
    IF ~Mixer_isValidInput(m, input) \/ ~Mixer_isValidOutput(m, output) THEN 0
    ELSE IF m.inputMutes[input] \/ m.outputMutes[output] THEN 0
    ELSE Mul(Mul(Mul(m.inputLevels[input], m.crosspoints[input][output]),
                 m.outputLevels[output]),
             m.mainLevel)

Mixer_calculateGain(m, input, output) ==
    IF ~Mixer_isValidInput(m, input) \/ ~Mixer_isValidOutput(m, output) THEN 0
    ELSE IF m.inputMutes[input] \/ m.outputMutes[output] THEN 0
    ELSE IF Mixer_anySoloedInputs(m) /\ ~m.inputSolos[input] THEN 0
    ELSE IF Mixer_anySoloedOutputs(m) /\ ~m.outputSolos[output] THEN 0
    ELSE Mul(Mul(Mul(m.inputLevels[input], m.crosspoints[input][output]),
                 m.outputLevels[output]),
             m.mainLevel)

(***************************************************************************)
(* OutputPatch.                                                            *)
(***************************************************************************)
\* rows of the patch matrix (64 in the program)
MAX_CUE_OUTPUTS == BusWidth
\* columns of the patch matrix (32 in the program)
MAX_DEVICE_OUTPUTS == 2

\* juce::jlimit
jlimit(lo, hi, v) == IF v < lo THEN lo ELSE IF hi < v THEN hi ELSE v

\* juce::Decibels::decibelsToGain with its default floor of -100 dB
Patch_dBToLinear(dB) == IF dB > -100 THEN Pow10Db(dB) ELSE 0

Patch_clearAllRouting(p) ==
    [p EXCEPT !.patchMatrix = [c \in 0..(MAX_CUE_OUTPUTS - 1) |->
                                  [d \in 0..(MAX_DEVICE_OUTPUTS - 1) |-> 0]]]

Patch_setPatchRouting(p, cueOutput, deviceOutput, level) ==
    IF /\ cueOutput >= 0 /\ cueOutput < MAX_CUE_OUTPUTS
       /\ deviceOutput >= 0 /\ deviceOutput < MAX_DEVICE_OUTPUTS
    THEN [p EXCEPT !.patchMatrix[cueOutput][deviceOutput] = jlimit(0, 4 * Unity, level)]
    ELSE p

RECURSIVE Patch_directFrom(_, _)
Patch_directFrom(p, ch) ==
    IF ch < Min(MAX_CUE_OUTPUTS, MAX_DEVICE_OUTPUTS)
    THEN Patch_directFrom(Patch_setPatchRouting(p, ch, ch, Unity), ch + 1)
    ELSE p

Patch_setDirectRouting(p) == Patch_directFrom(Patch_clearAllRouting(p), 0)

Patch_setDeviceOutputLevel(p, deviceOutput, level) ==
    IF deviceOutput >= 0 /\ deviceOutput < MAX_DEVICE_OUTPUTS
    THEN [p EXCEPT !.deviceOutputLevels[deviceOutput] = jlimit(0, 4 * Unity, level)]
    ELSE p

Patch_muteDeviceOutput(p, deviceOutput, mute) ==
    IF deviceOutput >= 0 /\ deviceOutput < MAX_DEVICE_OUTPUTS
    THEN [p EXCEPT !.deviceOutputMutes[deviceOutput] = mute]
    ELSE p

Patch_resetToDefault(p) ==
    [Patch_setDirectRouting(Patch_clearAllRouting(p))
        EXCEPT !.deviceOutputLevels = [d \in 0..(MAX_DEVICE_OUTPUTS - 1) |-> Unity],
               !.deviceOutputMutes = [d \in 0..(MAX_DEVICE_OUTPUTS - 1) |-> FALSE]]

NewPatch ==
    Patch_setDirectRouting(
        [patchMatrix |-> [c \in 0..(MAX_CUE_OUTPUTS - 1) |->
                             [d \in 0..(MAX_DEVICE_OUTPUTS - 1) |-> 0]],
         deviceOutputLevels |-> [d \in 0..(MAX_DEVICE_OUTPUTS - 1) |-> Unity],
         deviceOutputMutes |-> [d \in 0..(MAX_DEVICE_OUTPUTS - 1) |-> FALSE]])

\* patchLevel <= 0.0001f
Patch_belowThreshold(patchLevel) == 10000 * patchLevel <= Unity

Patch_gain_ignoresLevel(p, cueOut, deviceOut) == p.patchMatrix[cueOut][deviceOut]

\* gain = patchLevel * deviceLevel
Patch_gain(p, cueOut, deviceOut) ==
    Mul(p.patchMatrix[cueOut][deviceOut], p.deviceOutputLevels[deviceOut])

\* the cue outputs below upTo mixed into one sample of a device output
RECURSIVE Patch_mixInto(_, _, _, _, _)
Patch_mixInto(p, cueOutputs, deviceOut, upTo, k) ==
    IF upTo <= 0 THEN 0
    ELSE LET cueOut == upTo - 1
         IN  Patch_mixInto(p, cueOutputs, deviceOut, cueOut, k)
             + ( IF Patch_belowThreshold(p.patchMatrix[cueOut][deviceOut]) THEN 0
                 ELSE Mul(cueOutputs[cueOut][k], Patch_gain(p, cueOut, deviceOut)) )

\* processAudioBlock: the device buffers it leaves
Patch_processAudioBlock(p, cueOutputs, numCueOutputs, numDeviceOutputs, numSamples) ==
    [d \in 0..(numDeviceOutputs - 1) |->
        [k \in 1..numSamples |->
            IF d < Min(numDeviceOutputs, MAX_DEVICE_OUTPUTS) /\ ~p.deviceOutputMutes[d]
            THEN Patch_mixInto(p, cueOutputs, d, Min(numCueOutputs, MAX_CUE_OUTPUTS), k)
            ELSE 0]]

(***************************************************************************)
(* AudioCue.                                                               *)
(***************************************************************************)
\* isLoaded(): an audio buffer has been decoded
Cue_isLoaded(c) == c.loaded

\* isPlaying()
Cue_isPlaying(c) == c.currentState = "Playing"

Cue_updateState(c, newState) ==
    IF c.currentState # newState THEN [c EXCEPT !.currentState = newState] ELSE c

Cue_resetPosition(c) == [c EXCEPT !.currentPosition = 0]

\* the 1:1 default routing installed after a load
RECURSIVE Cue_defaultRouting(_, _, _)
Cue_defaultRouting(m, ch, numChannels) ==
    IF ch < numChannels /\ ch < BusWidth
    THEN Cue_defaultRouting(Mixer_setCrosspoint(m, ch, ch, 0), ch + 1, numChannels)
    ELSE m

Cue_loadAudioFile(c, path) ==
    LET c1 == Cue_updateState(c, "Loading")
    IN  IF ~FileExists(path)
        THEN [cue |-> Cue_updateState(c1, "Stopped"), ret |-> FALSE]
        ELSE IF ~FileReadable(path)
        THEN [cue |-> Cue_updateState(c1, "Stopped"), ret |-> FALSE]
        ELSE LET c2 == [c1 EXCEPT
                           !.loaded = TRUE,
                           !.numChannels = FileChannels(path),
                           !.numSamples = FileLength(path),
                           !.cueMatrix = Cue_defaultRouting(
                                             Mixer_setSize(@, FileChannels(path), BusWidth),
                                             0, FileChannels(path)),
                           !.filePath = path]
             IN  [cue |-> Cue_updateState(Cue_resetPosition(c2), "Stopped"), ret |-> TRUE]

\* AudioCue(id, filePath)
NewCue(path) ==
    LET c == [filePath |-> path, loaded |-> FALSE, numChannels |-> 0, numSamples |-> 0,
              currentState |-> "Stopped", shouldPlay |-> FALSE, currentPosition |-> 0,
              volumeFader |-> NewFader, masterVolume |-> Unity, loop |-> FALSE,
              cueMatrix |-> NewMixer(0, BusWidth)]
    IN  IF path # "" THEN Cue_loadAudioFile(c, path).cue ELSE c

\* mutant: play() without the isLoaded() check
Cue_play_unguarded(c, startFrames, volume) ==
    [cue |-> [c EXCEPT !.masterVolume = volume,
                       !.volumeFader = SV_setTargetValue(@, volume),
                       !.currentPosition = startFrames,
                       !.shouldPlay = TRUE,
                       !.currentState = "Playing"],
     ret |-> TRUE]

\* play(startTime, volume); startTime is given in frames (startTime * sampleRate)
Cue_play(c, startFrames, volume) ==
    IF ~Cue_isLoaded(c)
    THEN [cue |-> c, ret |-> FALSE]
    ELSE [cue |-> Cue_updateState(
                      [c EXCEPT !.masterVolume = volume,
                                !.volumeFader = SV_setTargetValue(@, volume),
                                !.currentPosition = startFrames,
                                !.shouldPlay = TRUE],
                      "Playing"),
          ret |-> TRUE]

\* mutant: stop() that forgets resetPosition()
Cue_stop_keepsPosition(c, fadeTime) ==
    IF c.currentState = "Stopped"
    THEN [cue |-> c, ret |-> TRUE]
    ELSE IF fadeTime > 0
    THEN [cue |-> [c EXCEPT !.shouldPlay = FALSE,
                            !.volumeFader = SV_setTargetValue(@, 0)],
          ret |-> TRUE]
    ELSE [cue |-> [c EXCEPT !.shouldPlay = FALSE,
                            !.volumeFader = SV_setCurrentAndTargetValue(@, 0),
                            !.currentState = "Stopped"],
          ret |-> TRUE]

Cue_stop(c, fadeTime) ==
    IF c.currentState = "Stopped"
    THEN [cue |-> c, ret |-> TRUE]
    ELSE LET c1 == [c EXCEPT !.shouldPlay = FALSE]
         IN  IF fadeTime > 0
             THEN [cue |-> [c1 EXCEPT !.volumeFader = SV_setTargetValue(@, 0)],
                   ret |-> TRUE]
             ELSE [cue |-> Cue_updateState(
                               Cue_resetPosition(
                                   [c1 EXCEPT !.volumeFader =
                                                  SV_setCurrentAndTargetValue(@, 0)]),
                               "Stopped"),
                   ret |-> TRUE]

\* mutant: pause() without the state check
Cue_pause_unguarded(c) ==
    [cue |-> [c EXCEPT !.shouldPlay = FALSE, !.currentState = "Paused"], ret |-> TRUE]

Cue_pause(c) ==
    IF c.currentState # "Playing"
    THEN [cue |-> c, ret |-> FALSE]
    ELSE [cue |-> Cue_updateState([c EXCEPT !.shouldPlay = FALSE], "Paused"),
          ret |-> TRUE]

\* mutant: resume() that restarts from the top
Cue_resume_rewinds(c) ==
    IF c.currentState # "Paused"
    THEN [cue |-> c, ret |-> FALSE]
    ELSE [cue |-> [c EXCEPT !.shouldPlay = TRUE, !.currentState = "Playing",
                            !.currentPosition = 0],
          ret |-> TRUE]

Cue_resume(c) ==
    IF c.currentState # "Paused"
    THEN [cue |-> c, ret |-> FALSE]
    ELSE [cue |-> Cue_updateState([c EXCEPT !.shouldPlay = TRUE], "Playing"),
          ret |-> TRUE]

\* the loop flag
Cue_setLoop(c, shouldLoop) == [c EXCEPT !.loop = shouldLoop]

\* setCrosspoint(input, output, levelDb) of the cue: always true
Cue_setCrosspoint(c, input, output, levelDb) ==
    [cue |-> [c EXCEPT !.cueMatrix = Mixer_setCrosspoint(@, input, output, levelDb)],
     ret |-> TRUE]

\* mutant: the end check with > in place of >=
Cue_atEnd_offByOne(c) == c.currentPosition > c.numSamples

\* "Check if we've reached the end"
Cue_atEnd(c) == c.currentPosition >= c.numSamples

\* the file buffer of one render: samplesToRead frames from pos, each multiplied
\* by the fader value of its sample, zeros after them.  The fader is advanced
\* once before the sample loop and once per sample.
Cue_fileBuffer(c, pos, samplesToRead, numSamples) ==
    [ch \in 0..(c.numChannels - 1) |->
        [k \in 1..numSamples |->
            IF k <= samplesToRead
            THEN Mul(FileSample(ch, pos + k - 1),
                     SV_value(SV_skip(c.volumeFader, k + 1)))
            ELSE 0]]

\* mutant: processAudio() that renders whatever the play flag and the state are
Cue_processAudio_anyState(c, numSamples) ==
    LET silent == Silence(BusWidth, numSamples)
    IN  IF ~Cue_isLoaded(c)
        THEN [cue |-> c, out |-> silent]
        ELSE IF Cue_atEnd(c) /\ ~c.loop
        THEN [cue |-> Cue_stop(c, 0).cue, out |-> silent]
        ELSE LET c1 == IF Cue_atEnd(c) THEN Cue_resetPosition(c) ELSE c
                 pos == c1.currentPosition
                 samplesToRead == Min(numSamples, c1.numSamples - pos)
             IN  IF samplesToRead <= 0
                 THEN [cue |-> c1, out |-> silent]
                 ELSE [cue |-> [c1 EXCEPT
                                  !.volumeFader = SV_skip(@, numSamples + 1),
                                  !.currentPosition = pos + samplesToRead],
                       out |-> Mixer_processAudio(
                                   c1.cueMatrix,
                                   Cue_fileBuffer(c1, pos, samplesToRead, numSamples),
                                   c1.numChannels, BusWidth, numSamples)]

\* processAudio(buffer, 0, numSamples): the cue afterwards and the buffer
Cue_processAudio(c, numSamples) ==
    LET silent == Silence(BusWidth, numSamples)
    IN  IF ~Cue_isLoaded(c) \/ ~c.shouldPlay \/ c.currentState # "Playing"
        THEN [cue |-> c, out |-> silent]
        ELSE IF Cue_atEnd(c) /\ ~c.loop
        THEN [cue |-> Cue_stop(c, 0).cue, out |-> silent]
        ELSE LET c1 == IF Cue_atEnd(c) THEN Cue_resetPosition(c) ELSE c
                 pos == c1.currentPosition
                 samplesToRead == Min(numSamples, c1.numSamples - pos)
             IN  IF samplesToRead <= 0
                 THEN [cue |-> c1, out |-> silent]
                 ELSE [cue |-> [c1 EXCEPT
                                  !.volumeFader = SV_skip(@, numSamples + 1),
                                  !.currentPosition = pos + samplesToRead],
                       out |-> Mixer_processAudio(
                                   c1.cueMatrix,
                                   Cue_fileBuffer(c1, pos, samplesToRead, numSamples),
                                   c1.numChannels, BusWidth, numSamples)]

(***************************************************************************)
(* AudioEngine: registry, lookups, control operations, device callback.    *)
(***************************************************************************)
CueIds == {"c1", "c2"}
PatchIds == {"main"}
\* output channels of the opened device
DeviceChannels == 2
\* the wall clock is kept modulo ClockMod
ClockMod == 2

NewEngine ==
    [attached |-> FALSE, patches |-> <<>>, defaultPatchId |-> "",
     dropoutCount |-> 0, cpuUsage |-> 0, lastCallbackTime |-> 0]

\* findCue: the registered cue, if any
Engine_findCue(cs, cueId) == cueId \in DOMAIN cs

\* findPatch: the pointer stored under the id, nullptr when there is none
Engine_findPatch(e, patchId) ==
    IF patchId \in DOMAIN e.patches THEN e.patches[patchId] ELSE "nullptr"

Engine_createOutputPatch(e, patchId) ==
    [e EXCEPT !.patches = [p \in (DOMAIN e.patches) \cup {patchId} |-> "nullptr"],
              !.defaultPatchId = IF e.defaultPatchId = "" THEN patchId ELSE @]

\* initialize(): deviceOk is whether the device manager could open a device
Engine_initialize(e, deviceOk) ==
    IF ~deviceOk THEN [engine |-> e, ret |-> FALSE]
    ELSE [engine |-> [Engine_createOutputPatch([e EXCEPT !.attached = TRUE], "main")
                         EXCEPT !.defaultPatchId = "main"],
          ret |-> TRUE]

\* the registry with cueId mapped to c
Registry_put(cs, cueId, c) ==
    [i \in (DOMAIN cs) \cup {cueId} |-> IF i = cueId THEN c ELSE cs[i]]

Engine_createAudioCue_unchecked(cs, cueId, path) ==
    [cues |-> Registry_put(cs, cueId, NewCue(path)), ret |-> TRUE]

Engine_createAudioCue(cs, cueId, path) ==
    LET c == NewCue(path)
    IN  IF ~Cue_isLoaded(c)
        THEN [cues |-> cs, ret |-> FALSE]
        ELSE [cues |-> Registry_put(cs, cueId, c), ret |-> TRUE]

Engine_playCue(cs, cueId, startFrames, volume) ==
    IF ~Engine_findCue(cs, cueId) THEN [cues |-> cs, ret |-> FALSE]
    ELSE LET r == Cue_play(cs[cueId], startFrames, volume)
         IN  [cues |-> [cs EXCEPT ![cueId] = r.cue], ret |-> r.ret]

Engine_stopCue(cs, cueId, fadeTime) ==
    IF ~Engine_findCue(cs, cueId) THEN [cues |-> cs, ret |-> FALSE]
    ELSE LET r == Cue_stop(cs[cueId], fadeTime)
         IN  [cues |-> [cs EXCEPT ![cueId] = r.cue], ret |-> r.ret]

Engine_pauseCue_noLookup(cs, cueId) == [cues |-> cs, ret |-> TRUE]

Engine_pauseCue(cs, cueId) ==
    IF ~Engine_findCue(cs, cueId) THEN [cues |-> cs, ret |-> FALSE]
    ELSE LET r == Cue_pause(cs[cueId])
         IN  [cues |-> [cs EXCEPT ![cueId] = r.cue], ret |-> r.ret]

Engine_resumeCue(cs, cueId) ==
    IF ~Engine_findCue(cs, cueId) THEN [cues |-> cs, ret |-> FALSE]
    ELSE LET r == Cue_resume(cs[cueId])
         IN  [cues |-> [cs EXCEPT ![cueId] = r.cue], ret |-> r.ret]

Engine_setCrosspoint(cs, cueId, input, output, levelDb) ==
    IF ~Engine_findCue(cs, cueId) THEN [cues |-> cs, ret |-> FALSE]
    ELSE LET r == Cue_setCrosspoint(cs[cueId], input, output, levelDb)
         IN  [cues |-> [cs EXCEPT ![cueId] = r.cue], ret |-> r.ret]

\* mutant: updatePerformanceStats without the std::min / std::max around cpuUsage
Engine_updatePerformanceStats_unclamped(e, late) ==
    LET e1 == [e EXCEPT !.lastCallbackTime = (@ + 1) % ClockMod]
    IN  IF ~e.attached THEN e1
        ELSE IF late
        THEN [e1 EXCEPT !.dropoutCount = @ + 1, !.cpuUsage = @ + 50]
        ELSE [e1 EXCEPT !.cpuUsage = @ - 1]

\* updatePerformanceStats; cpuUsage in tenths of a percent; late is whether the
\* time since the last callback exceeds the expected interval by more than 10%
Engine_updatePerformanceStats(e, late) ==
    LET e1 == [e EXCEPT !.lastCallbackTime = (@ + 1) % ClockMod]
    IN  IF ~e.attached THEN e1
        ELSE IF late
        THEN [e1 EXCEPT !.dropoutCount = @ + 1, !.cpuUsage = Min(1000, @ + 50)]
        ELSE [e1 EXCEPT !.cpuUsage = Max(0, @ - 1)]

\* the cues the callback renders, and what each writes into its cue buffer
Engine_rendered(cs, numSamples) ==
    [i \in {j \in DOMAIN cs : Cue_isPlaying(cs[j])} |->
        Cue_processAudio(cs[i], numSamples)]

RECURSIVE Engine_sumCues(_, _, _, _)
\* sum over the rendered cues of sample k of cue output channel ch
Engine_sumCues(rendered, ids, ch, k) ==
    IF ids = {} THEN 0
    ELSE LET i == CHOOSE x \in ids : TRUE
         IN  rendered[i].out[ch][k] + Engine_sumCues(rendered, ids \ {i}, ch, k)

\* what the callback leaves in outputChannelData
Engine_deviceOutput(e, rendered, numSamples) ==
    [dev \in 0..(DeviceChannels - 1) |->
        [k \in 1..numSamples |->
            IF Engine_findPatch(e, e.defaultPatchId) # "nullptr" /\ dev < BusWidth
            THEN Engine_sumCues(rendered, DOMAIN rendered, dev, k)
            ELSE 0]]

Engine_shutdown_keepsCallback(e) == [e EXCEPT !.patches = <<>>]

\* shutdown(): every cue stopped, registry and patches cleared, callback removed
Engine_shutdown(e) ==
    [e EXCEPT !.patches = <<>>, !.attached = FALSE]

(***************************************************************************)
(* Inputs.                                                                 *)
(***************************************************************************)
Blocks == 1..MaxBlock
StartFrames == 0..1
Volumes == {0, Unity}
FadeTimes == {0, 1}

NoHist == [since |-> [i \in CueIds |-> "none"], epoch |-> [i \in CueIds |-> 0]]

\* no block was written by the last operation
NoOut == [cue |-> <<>>, device |-> <<>>]

\* an operation: its name, target id, argument, return value and the state the
\* target cue was in when it was called
Op(name, id, arg, ret, from) ==
    [name |-> name, id |-> id, arg |-> arg, ret |-> ret, from |-> from, path |-> ""]

\* the most active state among the registered cues, "none" with no cue
BusiestState(cs) ==
    IF \E i \in DOMAIN cs : cs[i].currentState = "Playing" THEN "Playing"
    ELSE IF \E i \in DOMAIN cs : cs[i].currentState = "Paused" THEN "Paused"
    ELSE IF cs # <<>> THEN "Stopped" ELSE "none"

\* the state of a registered cue, "none" for an unknown id
StateOf(cs, cueId) == IF cueId \in DOMAIN cs THEN cs[cueId].currentState ELSE "none"

\* history of one cue after a control operation on it: what was asked, and an
\* epoch bit that tells a repeated request from the one before it
Since(cueId, what) ==
    [hist EXCEPT !.since[cueId] = what,
                 !.epoch[cueId] = IF what # "none" /\ hist.since[cueId] = what
                                  THEN 1 - @ ELSE @]

(***************************************************************************)
(* The engine: control thread operations and the device callback, each     *)
(* taken as a whole.                                                       *)
(***************************************************************************)
Init ==
    /\ cue = NewCue("")
    /\ cues = <<>>
    /\ engine = NewEngine
    /\ mixer = NewMixer(0, 0)
    /\ patch = NewPatch
    /\ out = NoOut
    /\ last = Op("AudioEngine", "", 0, TRUE, "none")
    /\ hist = NoHist

Initialize(deviceOk) ==
    LET r == Engine_initialize(engine, deviceOk)
    IN  /\ engine' = r.engine
        /\ last' = Op("initialize", "", 0, r.ret, "none")
        /\ out' = NoOut
        /\ UNCHANGED <<cue, cues, mixer, patch, hist>>

Shutdown ==
    /\ cues' = <<>>
    /\ engine' = Engine_shutdown(engine)
    /\ last' = Op("shutdown", "", 0, TRUE, BusiestState(cues))
    /\ hist' = [hist EXCEPT !.since = NoHist.since]
    /\ out' = NoOut
    /\ UNCHANGED <<cue, mixer, patch>>

CreateAudioCue(cueId, path) ==
    LET r == Engine_createAudioCue(cues, cueId, path)
    IN  /\ cues' = r.cues
        /\ last' = [Op("createAudioCue", cueId, 0, r.ret, StateOf(cues, cueId))
                        EXCEPT !.path = path]
        /\ hist' = Since(cueId, "none")
        /\ out' = NoOut
        /\ UNCHANGED <<cue, engine, mixer, patch>>

PlayCue(cueId, startFrames, volume) ==
    LET r == Engine_playCue(cues, cueId, startFrames, volume)
    IN  /\ cues' = r.cues
        /\ last' = Op("playCue", cueId, startFrames, r.ret, StateOf(cues, cueId))
        /\ hist' = Since(cueId, IF r.ret /\ startFrames = 0 THEN "play0" ELSE "none")
        /\ out' = NoOut
        /\ UNCHANGED <<cue, engine, mixer, patch>>

StopCue(cueId, fadeTime) ==
    LET r == Engine_stopCue(cues, cueId, fadeTime)
    IN  /\ cues' = r.cues
        /\ last' = Op("stopCue", cueId, fadeTime, r.ret, StateOf(cues, cueId))
        /\ hist' = Since(cueId,
                         IF /\ Engine_findCue(cues, cueId)
                            /\ cues[cueId].currentState = "Playing"
                            /\ fadeTime > 0
                         THEN "fadeStop" ELSE "none")
        /\ out' = NoOut
        /\ UNCHANGED <<cue, engine, mixer, patch>>

PauseCue(cueId) ==
    LET r == Engine_pauseCue(cues, cueId)
    IN  /\ cues' = r.cues
        /\ last' = Op("pauseCue", cueId, 0, r.ret, StateOf(cues, cueId))
        /\ hist' = Since(cueId, "none")
        /\ out' = NoOut
        /\ UNCHANGED <<cue, engine, mixer, patch>>

ResumeCue(cueId) ==
    LET r == Engine_resumeCue(cues, cueId)
    IN  /\ cues' = r.cues
        /\ last' = Op("resumeCue", cueId, 0, r.ret, StateOf(cues, cueId))
        /\ hist' = Since(cueId, "none")
        /\ out' = NoOut
        /\ UNCHANGED <<cue, engine, mixer, patch>>

\* setCrosspoint(cueId, input, output, levelDb)
SetCrosspoint(cueId, input, output, levelDb) ==
    LET r == Engine_setCrosspoint(cues, cueId, input, output, levelDb)
    IN  /\ cues' = r.cues
        /\ last' = Op("setCrosspoint", cueId, input, r.ret, StateOf(cues, cueId))
        /\ out' = NoOut
        /\ UNCHANGED <<cue, engine, mixer, patch, hist>>

\* audioDeviceIOCallback, called by the device while the callback is attached
AudioCallback(numSamples, late) ==
    /\ engine.attached
    /\ late => engine.dropoutCount < MaxDropouts
    /\ LET rendered == Engine_rendered(cues, numSamples)
       IN  /\ engine' = Engine_updatePerformanceStats(engine, late)
           /\ cues' = [i \in DOMAIN cues |->
                          IF i \in DOMAIN rendered THEN rendered[i].cue ELSE cues[i]]
           /\ out' = [cue |-> [i \in DOMAIN rendered |-> rendered[i].out],
                      device |-> Engine_deviceOutput(engine, rendered, numSamples)]
    /\ last' = Op("audioDeviceIOCallback", "", numSamples, TRUE, "none")
    /\ UNCHANGED <<cue, mixer, patch, hist>>

(***************************************************************************)
(* One AudioCue object, driven directly through its public operations.     *)
(***************************************************************************)
StartFramesCue == 0..(MaxLen + 1)
VolumesCue == {0, 500, Unity}

\* the block of one direct render
CueOut(block) == [cue |-> [i \in {""} |-> block], device |-> <<>>]

InitCue ==
    /\ cue \in {NewCue(p) : p \in Paths}
    /\ cues = <<>>
    /\ engine = NewEngine
    /\ mixer = NewMixer(0, 0)
    /\ patch = NewPatch
    /\ out = NoOut
    /\ last = Op("AudioCue", "", 0, TRUE, "none")
    /\ hist = NoHist

CueControl(name, arg, r) ==
    /\ cue' = r.cue
    /\ last' = Op(name, "", arg, r.ret, cue.currentState)
    /\ out' = NoOut
    /\ UNCHANGED <<cues, engine, mixer, patch, hist>>

CueLoad(path) == CueControl("loadAudioFile", 0, Cue_loadAudioFile(cue, path))

CuePlay(startFrames, volume) == CueControl("play", startFrames, Cue_play(cue, startFrames, volume))

CueStop(fadeTime) == CueControl("stop", fadeTime, Cue_stop(cue, fadeTime))

CuePause == CueControl("pause", 0, Cue_pause(cue))

CueResume == CueControl("resume", 0, Cue_resume(cue))

CueSetLoop(shouldLoop) ==
    CueControl("setLoop", 0, [cue |-> Cue_setLoop(cue, shouldLoop), ret |-> TRUE])

CueProcessAudio(numSamples) ==
    LET r == Cue_processAudio(cue, numSamples)
    IN  /\ cue' = r.cue
        /\ out' = CueOut(r.out)
        /\ last' = Op("processAudio", "", numSamples, TRUE, cue.currentState)
        /\ UNCHANGED <<cues, engine, mixer, patch, hist>>

NextCue ==
    \/ \E p \in Paths : CueLoad(p)
    \/ \E s \in StartFramesCue, v \in VolumesCue : CuePlay(s, v)
    \/ \E f \in FadeTimes : CueStop(f)
    \/ CuePause
    \/ CueResume
    \/ \E b \in BOOLEAN : CueSetLoop(b)
    \/ \E n \in Blocks : CueProcessAudio(n)

SpecCue == InitCue /\ [][NextCue]_vars

Callback == \E n \in Blocks : AudioCallback(n, FALSE)

\* the ids createCue is called with; the other ids stay unknown to the engine
CreatedIds == {"c1"}

Next ==
    \/ \E ok \in BOOLEAN : Initialize(ok)
    \/ Shutdown
    \/ \E i \in CreatedIds, p \in Paths : CreateAudioCue(i, p)
    \/ \E i \in CueIds, s \in StartFrames, v \in Volumes : PlayCue(i, s, v)
    \/ \E i \in CueIds, f \in FadeTimes : StopCue(i, f)
    \/ \E i \in CueIds : PauseCue(i)
    \/ \E i \in CueIds : ResumeCue(i)
    \/ \E i \in CueIds, input \in {0, BusWidth} : SetCrosspoint(i, input, 1, 0)
    \/ Callback

Spec == Init /\ [][Next]_vars

\* One session on one cue, with the device calling back for as long as the
\* callback is attached.
NextFair ==
    \/ Initialize(TRUE)
    \/ Shutdown
    \/ CreateAudioCue("c1", "mono")
    \/ PlayCue("c1", 0, Unity)
    \/ \E f \in FadeTimes : StopCue("c1", f)
    \/ PauseCue("c1")
    \/ ResumeCue("c1")
    \/ Callback

SpecFair == Init /\ [][NextFair]_vars /\ WF_vars(Callback)

(***************************************************************************)
(* One MatrixMixer driven through its own interface.                       *)
(***************************************************************************)
\* the levels the mixer session sets
MatrixDb == {-100, 0}
\* the input buffers the mixer session mixes, one amplitude per input channel
MatrixInputs ==
    { [ch \in 1..BusWidth |-> Unity],
      [ch \in 1..BusWidth |-> IF ch = 1 THEN Unity ELSE 0],
      [ch \in 1..BusWidth |-> IF ch = 1 THEN Unity ELSE -Unity] }

MatrixChannels == 0..(BusWidth - 1)
\* the channels the sessions' setters address
SetChannels == {0, 1}

\* a buffer of numSamples frames holding one amplitude per channel
BlockOf(amps, numChannels, numSamples) ==
    [ch \in 0..(numChannels - 1) |-> [k \in 1..numSamples |-> amps[ch + 1]]]

\* the buffer with one channel cleared
Zeroed(block, ch) == [block EXCEPT ![ch] = [k \in DOMAIN block[ch] |-> 0]]

InitMatrix ==
    /\ cue = NewCue("")
    /\ cues = <<>>
    /\ engine = NewEngine
    /\ mixer = NewMixer(BusWidth, BusWidth)
    /\ patch = NewPatch
    /\ out = NoOut
    /\ last = Op("MatrixMixer", "", 0, TRUE, "none")
    /\ hist = NoHist

MatrixSet(m) ==
    /\ mixer' = m
    /\ last' = Op("MatrixMixer.set", "", 0, TRUE, "none")
    /\ out' = NoOut
    /\ UNCHANGED <<cue, cues, engine, patch, hist>>

MatrixSetCrosspoint(i, o, db) == MatrixSet(Mixer_setCrosspoint(mixer, i, o, db))
MatrixSetInputLevel(i, db) == MatrixSet(Mixer_setInputLevel(mixer, i, db))
MatrixSetOutputLevel(o, db) == MatrixSet(Mixer_setOutputLevel(mixer, o, db))
MatrixSetMainLevel(db) == MatrixSet(Mixer_setMainLevel(mixer, db))
MatrixSetInputMute(i, b) == MatrixSet(Mixer_setInputMute(mixer, i, b))
MatrixSetOutputMute(o, b) == MatrixSet(Mixer_setOutputMute(mixer, o, b))
MatrixSetInputSolo(i, b) == MatrixSet(Mixer_setInputSolo(mixer, i, b))
MatrixSetOutputSolo(o, b) == MatrixSet(Mixer_setOutputSolo(mixer, o, b))

MatrixProcessAudio(amps) ==
    LET inBlock == BlockOf(amps, BusWidth, 1)
    IN  /\ out' = [in |-> inBlock,
                   mix |-> Mixer_processAudio(mixer, inBlock, BusWidth, BusWidth, 1)]
        /\ last' = Op("MatrixMixer.processAudio", "", 1, TRUE, "none")
        /\ UNCHANGED <<cue, cues, engine, mixer, patch, hist>>

MatrixCalculateGain(i, o) ==
    /\ out' = [input |-> i, output |-> o, gain |-> Mixer_calculateGain(mixer, i, o)]
    /\ last' = Op("MatrixMixer.calculateGain", "", 0, TRUE, "none")
    /\ UNCHANGED <<cue, cues, engine, mixer, patch, hist>>

NextMatrix ==
    \/ \E i \in SetChannels, o \in SetChannels, db \in MatrixDb :
            MatrixSetCrosspoint(i, o, db)
    \/ \E db \in MatrixDb : MatrixSetInputLevel(0, db)
    \/ \E db \in MatrixDb : MatrixSetOutputLevel(0, db)
    \/ \E db \in MatrixDb : MatrixSetMainLevel(db)
    \/ \E i \in SetChannels, b \in BOOLEAN : MatrixSetInputMute(i, b)
    \/ \E o \in SetChannels, b \in BOOLEAN : MatrixSetOutputMute(o, b)
    \/ \E i \in SetChannels, b \in BOOLEAN : MatrixSetInputSolo(i, b)
    \/ \E o \in SetChannels, b \in BOOLEAN : MatrixSetOutputSolo(o, b)
    \/ \E amps \in MatrixInputs : MatrixProcessAudio(amps)
    \/ \E i \in MatrixChannels, o \in MatrixChannels : MatrixCalculateGain(i, o)

SpecMatrix == InitMatrix /\ [][NextMatrix]_vars

(***************************************************************************)
(* The OutputPatch between the bus and the device, with the engine's       *)
(* output level control.                                                   *)
(***************************************************************************)
\* the linear levels setPatchRouting is called with
PatchLevels == {0, Unity, 5 * Unity}
\* the levels in dB setOutputLevel is called with
OutputDb == {-100, 0, 20}
\* the bus buffers handed to the patch, one amplitude per bus channel
BusInputs ==
    { [ch \in 1..BusWidth |-> 0],
      [ch \in 1..BusWidth |-> IF ch = 1 THEN Unity ELSE 0],
      [ch \in 1..BusWidth |-> Unity] }

DeviceOutputs == 0..(MAX_DEVICE_OUTPUTS - 1)

\* setOutputLevel(output, level in dB) of the engine: the patch's level of
\* that device output
Engine_setOutputLevel(p, output, levelDb) ==
    Patch_setDeviceOutputLevel(p, output, Patch_dBToLinear(levelDb))

\* the level in dB last requested for each device output
NoLevels == [outLevelDb |-> [d \in DeviceOutputs |-> 0]]

InitPatch ==
    /\ cue = NewCue("")
    /\ cues = <<>>
    /\ engine = NewEngine
    /\ mixer = NewMixer(0, 0)
    /\ patch = NewPatch
    /\ out = NoOut
    /\ last = Op("OutputPatch", "", 0, TRUE, "none")
    /\ hist = NoLevels

PatchSet(name, p, h) ==
    /\ patch' = p
    /\ hist' = h
    /\ last' = Op(name, "", 0, TRUE, "none")
    /\ out' = NoOut
    /\ UNCHANGED <<cue, cues, engine, mixer>>

SetPatchRouting(c, d, level) ==
    PatchSet("setPatchRouting", Patch_setPatchRouting(patch, c, d, level), hist)

SetOutputLevel(d, db) ==
    PatchSet("setOutputLevel", Engine_setOutputLevel(patch, d, db),
             [hist EXCEPT !.outLevelDb[d] = db])

MuteDeviceOutput(d, b) ==
    PatchSet("muteDeviceOutput", Patch_muteDeviceOutput(patch, d, b), hist)

ResetToDefault == PatchSet("resetToDefault", Patch_resetToDefault(patch), NoLevels)

ProcessAudioBlock(amps) ==
    LET bus == BlockOf(amps, BusWidth, 1)
    IN  /\ out' = [bus |-> bus,
                   device |-> Patch_processAudioBlock(patch, bus, BusWidth,
                                                      DeviceChannels, 1)]
        /\ last' = Op("processAudioBlock", "", 1, TRUE, "none")
        /\ UNCHANGED <<cue, cues, engine, mixer, patch, hist>>

NextPatch ==
    \/ \E c \in SetChannels, d \in SetChannels, l \in PatchLevels :
            SetPatchRouting(c, d, l)
    \/ \E d \in SetChannels, db \in OutputDb : SetOutputLevel(d, db)
    \/ \E d \in SetChannels, b \in BOOLEAN : MuteDeviceOutput(d, b)
    \/ ResetToDefault
    \/ \E amps \in BusInputs : ProcessAudioBlock(amps)

SpecPatch == InitPatch /\ [][NextPatch]_vars

(***************************************************************************)
(* The OutputPatch under its setters and routing presets, called with      *)
(* indices below, inside and above the patch matrix.  last holds the       *)
(* indices of the call.                                                    *)
(***************************************************************************)
\* the number of stereo pairs setStereoRouting walks through
StereoPairs == 16

Patch_clearPatchRouting(p, cueOutput, deviceOutput) ==
    Patch_setPatchRouting(p, cueOutput, deviceOutput, 0)

RECURSIVE Patch_stereoFrom(_, _, _, _)
Patch_stereoFrom(p, pair, startCueOutput, startDeviceOutput) ==
    IF pair >= StereoPairs THEN p
    ELSE LET cueLeft == startCueOutput + pair * 2
             cueRight == startCueOutput + pair * 2 + 1
             deviceLeft == startDeviceOutput + pair * 2
             deviceRight == startDeviceOutput + pair * 2 + 1
             fits == /\ cueLeft < MAX_CUE_OUTPUTS /\ cueRight < MAX_CUE_OUTPUTS
                     /\ deviceLeft < MAX_DEVICE_OUTPUTS /\ deviceRight < MAX_DEVICE_OUTPUTS
         IN  Patch_stereoFrom(
                 IF fits
                 THEN Patch_setPatchRouting(
                          Patch_setPatchRouting(p, cueLeft, deviceLeft, Unity),
                          cueRight, deviceRight, Unity)
                 ELSE p,
                 pair + 1, startCueOutput, startDeviceOutput)

Patch_setStereoRouting(p, startCueOutput, startDeviceOutput) ==
    Patch_stereoFrom(Patch_clearAllRouting(p), 0, startCueOutput, startDeviceOutput)

RECURSIVE Patch_roomsFrom(_, _)
Patch_roomsFrom(p, roomMappings) ==
    IF roomMappings = <<>> THEN p
    ELSE Patch_roomsFrom(
             Patch_setPatchRouting(p, Head(roomMappings)[1], Head(roomMappings)[2], Unity),
             Tail(roomMappings))

Patch_setMultiRoomRouting(p, roomMappings) ==
    Patch_roomsFrom(Patch_clearAllRouting(p), roomMappings)

\* the levels the presets session passes to the setters
PresetLevels == {-Unity, 0, Unity, 5 * Unity}
CueOutputIndices == {-1, 0, MAX_CUE_OUTPUTS}
DeviceOutputIndices == {-1, 0, MAX_DEVICE_OUTPUTS}
\* the room mappings the presets session passes
RoomPairs == {<<0, 1>>, <<1, 0>>, <<MAX_CUE_OUTPUTS, 0>>, <<0, -1>>}
RoomMappings == {<<a>> : a \in RoomPairs} \cup {<<a, b>> : a \in RoomPairs, b \in RoomPairs}

\* a call on the patch: its name and the index pairs it was given
PatchCall(name, pairs, p) ==
    /\ patch' = p
    /\ last' = [name |-> name, pairs |-> pairs]
    /\ UNCHANGED <<cue, cues, engine, mixer, out, hist>>

InitPresets ==
    /\ cue = NewCue("")
    /\ cues = <<>>
    /\ engine = NewEngine
    /\ mixer = NewMixer(0, 0)
    /\ patch = NewPatch
    /\ out = NoOut
    /\ last = [name |-> "OutputPatch", pairs |-> <<>>]
    /\ hist = NoHist

NextPresets ==
    \/ \E c \in CueOutputIndices, d \in DeviceOutputIndices, l \in PresetLevels :
           PatchCall("setPatchRouting", <<<<c, d>>>>, Patch_setPatchRouting(patch, c, d, l))
    \/ \E c \in CueOutputIndices, d \in DeviceOutputIndices :
           PatchCall("clearPatchRouting", <<<<c, d>>>>, Patch_clearPatchRouting(patch, c, d))
    \/ \E d \in DeviceOutputIndices, l \in PresetLevels :
           PatchCall("setDeviceOutputLevel", <<<<0, d>>>>, Patch_setDeviceOutputLevel(patch, d, l))
    \/ PatchCall("clearAllRouting", <<>>, Patch_clearAllRouting(patch))
    \/ PatchCall("setDirectRouting", <<>>, Patch_setDirectRouting(patch))
    \/ \E c \in CueOutputIndices, d \in DeviceOutputIndices :
           PatchCall("setStereoRouting", <<<<c, d>>>>, Patch_setStereoRouting(patch, c, d))
    \/ \E m \in RoomMappings :
           PatchCall("setMultiRoomRouting", m, Patch_setMultiRoomRouting(patch, m))
    \/ PatchCall("resetToDefault", <<>>, Patch_resetToDefault(patch))

SpecPresets == InitPresets /\ [][NextPresets]_vars

(***************************************************************************)
(* The crosspoint and trim setters of one MatrixMixer with its getter.     *)
(***************************************************************************)
\* the levels in dB the gain session passes
GainDb == {-120, -100, -40, -6, 0, 12, 20}
\* the levels in dB the gain session sets trims and the main level to
TrimDb == {0, 20}
\* the channel indices the gain session passes: below, inside and above the matrix
GainIndices == {-1, 0, BusWidth}

\* the level last passed to setCrosspoint for each crosspoint, if any
NoRequests ==
    [db |-> [i \in MatrixChannels |-> [o \in MatrixChannels |-> [set |-> FALSE, db |-> 0]]]]

InitGain ==
    /\ cue = NewCue("")
    /\ cues = <<>>
    /\ engine = NewEngine
    /\ mixer = NewMixer(BusWidth, BusWidth)
    /\ patch = NewPatch
    /\ out = NoOut
    /\ last = [name |-> "MatrixMixer", input |-> 0, output |-> 0, value |-> 0]
    /\ hist = NoRequests

GainSet(name, i, o, m, h) ==
    /\ mixer' = m
    /\ hist' = h
    /\ last' = [name |-> name, input |-> i, output |-> o, value |-> 0]
    /\ UNCHANGED <<cue, cues, engine, patch, out>>

GainSetCrosspoint(i, o, db) ==
    GainSet("setCrosspoint", i, o, Mixer_setCrosspoint(mixer, i, o, db),
            IF Mixer_isValidInput(mixer, i) /\ Mixer_isValidOutput(mixer, o)
            THEN [hist EXCEPT !.db[i][o] = [set |-> TRUE, db |-> db]]
            ELSE hist)

GainSetInputLevel(i, db) ==
    GainSet("setInputLevel", i, 0, Mixer_setInputLevel(mixer, i, db), hist)
GainSetOutputLevel(o, db) ==
    GainSet("setOutputLevel", 0, o, Mixer_setOutputLevel(mixer, o, db), hist)
GainSetMainLevel(db) == GainSet("setMainLevel", 0, 0, Mixer_setMainLevel(mixer, db), hist)

\* the mute and solo setters, on the input or the output of index idx
GainSetFlag(name, idx, flag) ==
    CASE name = "setInputMute" ->
            GainSet(name, idx, 0, Mixer_setInputMute(mixer, idx, flag), hist)
      [] name = "setOutputMute" ->
            GainSet(name, 0, idx, Mixer_setOutputMute(mixer, idx, flag), hist)
      [] name = "setInputSolo" ->
            GainSet(name, idx, 0, Mixer_setInputSolo(mixer, idx, flag), hist)
      [] name = "setOutputSolo" ->
            GainSet(name, 0, idx, Mixer_setOutputSolo(mixer, idx, flag), hist)

GainGetCrosspoint(i, o) ==
    /\ last' = [name |-> "getCrosspoint", input |-> i, output |-> o,
                value |-> Mixer_getCrosspoint(mixer, i, o)]
    /\ UNCHANGED <<cue, cues, engine, mixer, patch, out, hist>>

NextGain ==
    \/ \E i \in {-1, 0}, o \in {0, BusWidth}, db \in GainDb : GainSetCrosspoint(i, o, db)
    \/ \E i \in GainIndices, db \in TrimDb : GainSetInputLevel(i, db)
    \/ \E o \in GainIndices, db \in TrimDb : GainSetOutputLevel(o, db)
    \/ \E db \in TrimDb : GainSetMainLevel(db)
    \/ \E name \in {"setInputMute", "setOutputMute", "setInputSolo", "setOutputSolo"},
          idx \in GainIndices, flag \in BOOLEAN : GainSetFlag(name, idx, flag)
    \/ \E i \in {-1, 0}, o \in {0, BusWidth} : GainGetCrosspoint(i, o)

SpecGain == InitGain /\ [][NextGain]_vars

(***************************************************************************)
(* One cue whose routing is edited between loads.                          *)
(***************************************************************************)
Cue_setInputLevel(c, input, levelDb) ==
    [cue |-> [c EXCEPT !.cueMatrix = Mixer_setInputLevel(@, input, levelDb)],
     ret |-> TRUE]

Cue_setOutputLevel(c, output, levelDb) ==
    [cue |-> [c EXCEPT !.cueMatrix = Mixer_setOutputLevel(@, output, levelDb)],
     ret |-> TRUE]

\* the levels in dB the routing session sets
RoutingDb == {-100, 6}

InitRouting ==
    /\ cue \in {NewCue(p) : p \in Paths}
    /\ cues = <<>>
    /\ engine = NewEngine
    /\ mixer = NewMixer(0, 0)
    /\ patch = NewPatch
    /\ out = NoOut
    /\ last = Op("AudioCue", "", 0, TRUE, "none")
    /\ hist = NoHist

RoutingSetCrosspoint(input, output, levelDb) ==
    CueControl("setCrosspoint", input, Cue_setCrosspoint(cue, input, output, levelDb))

RoutingSetInputLevel(input, levelDb) ==
    CueControl("setInputLevel", input, Cue_setInputLevel(cue, input, levelDb))

RoutingSetOutputLevel(output, levelDb) ==
    CueControl("setOutputLevel", output, Cue_setOutputLevel(cue, output, levelDb))

NextRouting ==
    \/ \E p \in Paths : CueLoad(p)
    \/ \E i \in 0..(BusWidth - 1), o \in 0..(BusWidth - 1), db \in RoutingDb :
           RoutingSetCrosspoint(i, o, db)
    \/ \E i \in 0..(BusWidth - 1), db \in RoutingDb : RoutingSetInputLevel(i, db)
    \/ \E o \in 0..(BusWidth - 1), db \in RoutingDb : RoutingSetOutputLevel(o, db)

SpecRouting == InitRouting /\ [][NextRouting]_vars

(***************************************************************************)
(* One cue shared by the message thread and the audio thread.  No lock     *)
(* covers the cue: findCue() releases cuesLock before play() or stop()     *)
(* runs.  processAudio() loads currentPosition once, early, and stores it  *)
(* once, at its end; the control calls may run between the two.            *)
(* hist holds the audio thread's position in processAudio() and its        *)
(* locals, and the start frame of a play() that completed meanwhile, if *)
(* any.                                                                    *)
(***************************************************************************)
RenderIdle == [pc |-> "idle", numSamples |-> 0, pos |-> 0, samplesToRead |-> 0, played |-> {}]

InitRace ==
    /\ cue \in {NewCue(p) : p \in Paths}
    /\ cues = <<>>
    /\ engine = NewEngine
    /\ mixer = NewMixer(0, 0)
    /\ patch = NewPatch
    /\ out = NoOut
    /\ last = Op("AudioCue", "", 0, TRUE, "none")
    /\ hist = RenderIdle

\* play(startTime, 1.0) on the message thread
RacePlay(startFrames) ==
    LET r == Cue_play(cue, startFrames, Unity)
    IN  /\ cue' = r.cue
        /\ last' = Op("play", "", startFrames, r.ret, cue.currentState)
        /\ hist' = [hist EXCEPT !.played = IF hist.pc = "mix" /\ r.ret THEN {startFrames} ELSE {}]
        /\ UNCHANGED <<cues, engine, mixer, patch, out>>

\* stop(0) on the message thread
RaceStop ==
    LET r == Cue_stop(cue, 0)
    IN  /\ cue' = r.cue
        /\ last' = Op("stop", "", 0, r.ret, cue.currentState)
        /\ hist' = [hist EXCEPT !.played = {}]
        /\ UNCHANGED <<cues, engine, mixer, patch, out>>

\* processAudio() up to the computation of samplesToRead: the early returns
\* finish the call, otherwise the cursor read stays in the local pos
ProcessAudioRead(numSamples) ==
    /\ hist.pc = "idle"
    /\ LET returns == \/ ~Cue_isLoaded(cue)
                       \/ ~cue.shouldPlay
                       \/ cue.currentState # "Playing"
                       \/ (Cue_atEnd(cue) /\ ~cue.loop)
           c1 == IF Cue_atEnd(cue) THEN Cue_resetPosition(cue) ELSE cue
           pos == c1.currentPosition
           samplesToRead == Min(numSamples, c1.numSamples - pos)
       IN  IF returns \/ samplesToRead <= 0
           THEN /\ cue' = Cue_processAudio(cue, numSamples).cue
                /\ hist' = RenderIdle
                /\ last' = Op("processAudio", "", numSamples, TRUE, cue.currentState)
           ELSE /\ cue' = c1
                /\ hist' = [pc |-> "mix", numSamples |-> numSamples, pos |-> pos,
                            samplesToRead |-> samplesToRead, played |-> {}]
                /\ last' = last
    /\ UNCHANGED <<cues, engine, mixer, patch, out>>

\* the rest of processAudio(): the fader advances and the cursor is stored
ProcessAudioStore ==
    /\ hist.pc = "mix"
    /\ cue' = [cue EXCEPT !.volumeFader = SV_skip(@, hist.numSamples + 1),
                          !.currentPosition = hist.pos + hist.samplesToRead]
    /\ hist' = [hist EXCEPT !.pc = "idle"]
    /\ last' = Op("processAudio", "", hist.numSamples, TRUE, cue.currentState)
    /\ UNCHANGED <<cues, engine, mixer, patch, out>>

NextRace ==
    \/ \E s \in StartFrames : RacePlay(s)
    \/ RaceStop
    \/ \E n \in Blocks : ProcessAudioRead(n)
    \/ ProcessAudioStore

SpecRace == InitRace /\ [][NextRace]_vars

(***************************************************************************)
(* One cue whose fade-out stop is followed by a new play().  hist tells    *)
(* whether a play() has replaced a pending fade-out stop since the last    *)
(* stop().                                                                 *)
(***************************************************************************)
\* stop(fadeTime > 0) was called on the playing cue and no play() came since
Cue_fadeStopPending(c) == c.currentState = "Playing" /\ ~c.shouldPlay

InitFade ==
    /\ cue \in {NewCue(p) : p \in Paths}
    /\ cues = <<>>
    /\ engine = NewEngine
    /\ mixer = NewMixer(0, 0)
    /\ patch = NewPatch
    /\ out = NoOut
    /\ last = Op("AudioCue", "", 0, TRUE, "none")
    /\ hist = [superseded |-> FALSE]

FadePlay(startFrames, volume) ==
    LET r == Cue_play(cue, startFrames, volume)
    IN  /\ cue' = r.cue
        /\ last' = Op("play", "", startFrames, r.ret, cue.currentState)
        /\ hist' = [superseded |-> hist.superseded \/ Cue_fadeStopPending(cue)]
        /\ out' = NoOut
        /\ UNCHANGED <<cues, engine, mixer, patch>>

FadeStop(fadeTime) ==
    LET r == Cue_stop(cue, fadeTime)
    IN  /\ cue' = r.cue
        /\ last' = Op("stop", "", fadeTime, r.ret, cue.currentState)
        /\ hist' = [superseded |-> FALSE]
        /\ out' = NoOut
        /\ UNCHANGED <<cues, engine, mixer, patch>>

FadeProcessAudio(numSamples) ==
    LET r == Cue_processAudio(cue, numSamples)
    IN  /\ cue' = r.cue
        /\ out' = CueOut(r.out)
        /\ last' = Op("processAudio", "", numSamples, TRUE, cue.currentState)
        /\ UNCHANGED <<cues, engine, mixer, patch, hist>>

NextFade ==
    \/ \E s \in StartFrames, v \in VolumesCue : FadePlay(s, v)
    \/ \E f \in FadeTimes : FadeStop(f)
    \/ \E n \in Blocks : FadeProcessAudio(n)

SpecSupersede == InitFade /\ [][NextFade]_vars

(***************************************************************************)
(* The engine's performance counters against the real time between two     *)
(* callbacks.  Real time runs in ticks, TicksPerMs to the millisecond.      *)
(* juce::Time::getCurrentTime() is a whole number of milliseconds, so the   *)
(* interval updatePerformanceStats() measures is the difference of two      *)
(* truncated times.  hist holds the phase of the previous callback inside   *)
(* its millisecond and the real time elapsed before the last callback.      *)
(***************************************************************************)
TicksPerMs == 2
\* getCurrentBufferSizeSamples() / getCurrentSampleRate(), in ticks
BlockTicks == 2
\* the longest time the device lets pass between two callbacks, in ticks
MaxDelay == 4
\* cap on the dropout counter of the counters session: one late callback more
\* than it takes to bring the estimate to its ceiling
MaxLate == 21

\* timeSinceLastCallback.inMilliseconds() for a callback elapsed ticks after
\* one at the given phase
Stats_actualInterval(phase, elapsed) == Div(phase + elapsed, TicksPerMs)

\* actualInterval > expectedInterval * 1.1, both in milliseconds
Stats_isLate(actualInterval) == actualInterval * TicksPerMs * 10 > BlockTicks * 11

Engine_audioDeviceAboutToStart(e) ==
    [e EXCEPT !.dropoutCount = 0, !.cpuUsage = 0, !.lastCallbackTime = 0]

InitStats ==
    /\ cue = NewCue("")
    /\ cues = <<>>
    /\ engine = NewEngine
    /\ mixer = NewMixer(0, 0)
    /\ patch = NewPatch
    /\ out = NoOut
    /\ last = Op("AudioEngine", "", 0, TRUE, "none")
    /\ hist = [phase |-> 0, elapsed |-> 0]

StatsInitialize ==
    /\ ~engine.attached
    /\ engine' = Engine_initialize(engine, TRUE).engine
    /\ last' = Op("initialize", "", 0, TRUE, "none")
    /\ UNCHANGED <<cue, cues, mixer, patch, out, hist>>

\* the device starts at any moment of a millisecond
StatsAboutToStart(phase) ==
    /\ engine.attached
    /\ engine' = Engine_audioDeviceAboutToStart(engine)
    /\ hist' = [phase |-> phase, elapsed |-> 0]
    /\ last' = Op("audioDeviceAboutToStart", "", 0, TRUE, "none")
    /\ UNCHANGED <<cue, cues, mixer, patch, out>>

\* a callback elapsed ticks after the previous one, or after the device start
StatsCallback(elapsed) ==
    LET late == Stats_isLate(Stats_actualInterval(hist.phase, elapsed))
    IN  /\ engine.attached
        /\ late => engine.dropoutCount < MaxLate
        /\ engine' = Engine_updatePerformanceStats(engine, late)
        /\ hist' = [phase |-> (hist.phase + elapsed) % TicksPerMs, elapsed |-> elapsed]
        /\ last' = Op("audioDeviceIOCallback", "", 0, TRUE, "none")
        /\ UNCHANGED <<cue, cues, mixer, patch, out>>

NextStats ==
    \/ StatsInitialize
    \/ \E phase \in 0..(TicksPerMs - 1) : StatsAboutToStart(phase)
    \/ \E elapsed \in 1..MaxDelay : StatsCallback(elapsed)

SpecStats == InitStats /\ [][NextStats]_vars

(***************************************************************************)
(* pause(), resume() and stop(0) on the message thread, each in two steps: *)
(* the test of currentState the operation starts with, and the stores that *)
(* follow it.  A render on the audio thread may run between the two.  hist *)
(* holds the operation under way, the cue as the operation found it, and   *)
(* the block length of a render that ran meanwhile and took the            *)
(* end-of-file branch (0 when there was none).                             *)
(***************************************************************************)
SerialOps == {"pause", "resume", "stop"}

\* the operation as one call
Cue_call(c, op) ==
    CASE op = "pause" -> Cue_pause(c).cue
      [] op = "resume" -> Cue_resume(c).cue
      [] op = "stop" -> Cue_stop(c, 0).cue

\* the test of currentState at the head of the operation
Cue_passesCheck(c, op) ==
    CASE op = "pause" -> c.currentState = "Playing"
      [] op = "resume" -> c.currentState = "Paused"
      [] op = "stop" -> c.currentState # "Stopped"

\* the stores after the test
Cue_afterCheck(c, op) ==
    CASE op = "pause" -> Cue_updateState([c EXCEPT !.shouldPlay = FALSE], "Paused")
      [] op = "resume" -> Cue_updateState([c EXCEPT !.shouldPlay = TRUE], "Playing")
      [] op = "stop" ->
            Cue_updateState(
                Cue_resetPosition([c EXCEPT !.shouldPlay = FALSE,
                                            !.volumeFader = SV_setCurrentAndTargetValue(@, 0)]),
                "Stopped")

\* the render takes the branch that stops the cue at the end of the file
Cue_rendersEnd(c) ==
    Cue_isLoaded(c) /\ c.shouldPlay /\ c.currentState = "Playing" /\ Cue_atEnd(c) /\ ~c.loop

NoCall == [pc |-> "idle", op |-> "", before |-> NewCue(""), ended |-> 0]

InitAtomic ==
    /\ cue \in {NewCue(p) : p \in Paths}
    /\ cues = <<>>
    /\ engine = NewEngine
    /\ mixer = NewMixer(0, 0)
    /\ patch = NewPatch
    /\ out = NoOut
    /\ last = Op("AudioCue", "", 0, TRUE, "none")
    /\ hist = NoCall

AtomicPlay(startFrames) ==
    LET r == Cue_play(cue, startFrames, Unity)
    IN  /\ hist.pc = "idle"
        /\ cue' = r.cue
        /\ last' = Op("play", "", startFrames, r.ret, cue.currentState)
        /\ hist' = NoCall
        /\ UNCHANGED <<cues, engine, mixer, patch, out>>

\* one render; at most one runs while an operation is under way
AtomicProcessAudio(numSamples) ==
    /\ hist.pc = "checked" => hist.ended = 0
    /\ cue' = Cue_processAudio(cue, numSamples).cue
    /\ last' = Op("processAudio", "", numSamples, TRUE, cue.currentState)
    /\ hist' = IF hist.pc = "checked" /\ Cue_rendersEnd(cue)
               THEN [hist EXCEPT !.ended = numSamples]
               ELSE IF hist.pc = "checked" THEN hist ELSE NoCall
    /\ UNCHANGED <<cues, engine, mixer, patch, out>>

\* the operation starts: a failed test ends it at once
AtomicCheck(op) ==
    /\ hist.pc = "idle"
    /\ IF Cue_passesCheck(cue, op)
       THEN /\ hist' = [pc |-> "checked", op |-> op, before |-> cue, ended |-> 0]
            /\ last' = last
       ELSE /\ hist' = NoCall
            /\ last' = Op(op, "", 0, op = "stop", cue.currentState)
    /\ UNCHANGED <<cue, cues, engine, mixer, patch, out>>

AtomicFinish ==
    /\ hist.pc = "checked"
    /\ cue' = Cue_afterCheck(cue, hist.op)
    /\ last' = Op(hist.op, "", 0, TRUE, hist.before.currentState)
    /\ hist' = [hist EXCEPT !.pc = "idle"]
    /\ UNCHANGED <<cues, engine, mixer, patch, out>>

NextAtomic ==
    \/ \E s \in StartFramesCue : AtomicPlay(s)
    \/ \E n \in Blocks : AtomicProcessAudio(n)
    \/ \E op \in SerialOps : AtomicCheck(op)
    \/ AtomicFinish

SpecAtomic == InitAtomic /\ [][NextAtomic]_vars

(***************************************************************************)
(* CommandProcessor: JSON requests dispatched to the engine.               *)
(***************************************************************************)
\* juce::var values, tagged with their type
Void == [type |-> "void"]
Num(n) == [type |-> "number", value |-> n]
Bool(b) == [type |-> "bool", value |-> b]
Str(parts) == [type |-> "string", value |-> parts]
Obj(fields) == [type |-> "object", fields |-> fields]

isObject(v) == v.type = "object"
hasProperty(v, name) == isObject(v) /\ name \in DOMAIN v.fields
getProperty(v, name, default) == IF hasProperty(v, name) THEN v.fields[name] ELSE default

\* setInputLevel(input, levelDb) of the cue: always true
Engine_setCueInputLevel(cs, cueId, input, levelDb) ==
    IF ~Engine_findCue(cs, cueId) THEN [cues |-> cs, ret |-> FALSE]
    ELSE LET r == Cue_setInputLevel(cs[cueId], input, levelDb)
         IN  [cues |-> [cs EXCEPT ![cueId] = r.cue], ret |-> r.ret]

\* the response object: success false, the message as a string, the code
createErrorResponse(message) ==
    [success |-> FALSE, error |-> Str(message), code |-> Num(-1)]

\* the response object: success true, and data unless it is void
createSuccessResponse(data) ==
    IF data.type = "void" THEN [success |-> TRUE]
    ELSE [success |-> TRUE, data |-> data]

\* mutant: only the type of params is checked
validateParameters_objectOnly(params, required) == isObject(params)

validateParameters(params, required) ==
    /\ isObject(params)
    /\ \A param \in required : hasProperty(params, param)

\* what a handler leaves behind: the registry, the engine, the response and the
\* engine operations it invoked
Handled(cs, e, response, calls) ==
    [cues |-> cs, engine |-> e, response |-> response, calls |-> calls]

Rejected(cs, e, message) == Handled(cs, e, createErrorResponse(message), <<>>)

\* In the handlers below, ret is the result of an engine operation whose body
\* is not in the engine's source file.
handleInitialize(params, cs, e, ret) ==
    LET r == Engine_initialize(e, ret)
    IN  Handled(cs, r.engine, createSuccessResponse(Bool(r.ret)), <<"initialize">>)

handleShutdown(params, cs, e, ret) ==
    Handled(<<>>, Engine_shutdown(e), createSuccessResponse(Void), <<"shutdown">>)

handleGetStatus(params, cs, e, ret) ==
    Handled(cs, e, createSuccessResponse(Obj(<<>>)), <<"getStatus">>)

handleSetAudioDevice(params, cs, e, ret) ==
    IF ~validateParameters(params, {"deviceName"})
    THEN Rejected(cs, e, <<"Missing required parameter: deviceName">>)
    ELSE Handled(cs, e, createSuccessResponse(Bool(ret)), <<"setAudioDevice">>)

handleGetDevices(params, cs, e, ret) ==
    Handled(cs, e, createSuccessResponse([type |-> "array"]), <<"getAvailableDevices">>)

handleCreateCue(params, cs, e, ret) ==
    IF ~validateParameters(params, {"cueId", "filePath"})
    THEN Rejected(cs, e, <<"Missing required parameters: cueId, filePath">>)
    ELSE LET r == Engine_createAudioCue(cs, getProperty(params, "cueId", ""),
                                        getProperty(params, "filePath", ""))
         IN  Handled(r.cues, e, createSuccessResponse(Bool(r.ret)), <<"createAudioCue">>)

handleLoadFile(params, cs, e, ret) ==
    IF ~validateParameters(params, {"cueId", "filePath"})
    THEN Rejected(cs, e, <<"Missing required parameters: cueId, filePath">>)
    ELSE Handled(cs, e, createSuccessResponse(Bool(ret)), <<"loadAudioFile">>)

\* fadeInTime is passed where playCue takes the volume
handlePlayCue(params, cs, e, ret) ==
    IF ~validateParameters(params, {"cueId"})
    THEN Rejected(cs, e, <<"Missing required parameter: cueId">>)
    ELSE LET r == Engine_playCue(cs, getProperty(params, "cueId", ""),
                                 getProperty(params, "startTime", 0),
                                 getProperty(params, "fadeInTime", 0))
         IN  Handled(r.cues, e, createSuccessResponse(Bool(r.ret)), <<"playCue">>)

handleStopCue(params, cs, e, ret) ==
    IF ~validateParameters(params, {"cueId"})
    THEN Rejected(cs, e, <<"Missing required parameter: cueId">>)
    ELSE LET r == Engine_stopCue(cs, getProperty(params, "cueId", ""),
                                 getProperty(params, "fadeOutTime", 0))
         IN  Handled(r.cues, e, createSuccessResponse(Bool(r.ret)), <<"stopCue">>)

handlePauseCue(params, cs, e, ret) ==
    IF ~validateParameters(params, {"cueId"})
    THEN Rejected(cs, e, <<"Missing required parameter: cueId">>)
    ELSE LET r == Engine_pauseCue(cs, getProperty(params, "cueId", ""))
         IN  Handled(r.cues, e, createSuccessResponse(Bool(r.ret)), <<"pauseCue">>)

handleResumeCue(params, cs, e, ret) ==
    IF ~validateParameters(params, {"cueId"})
    THEN Rejected(cs, e, <<"Missing required parameter: cueId">>)
    ELSE LET r == Engine_resumeCue(cs, getProperty(params, "cueId", ""))
         IN  Handled(r.cues, e, createSuccessResponse(Bool(r.ret)), <<"resumeCue">>)

handleStopAllCues(params, cs, e, ret) ==
    Handled(cs, e, createSuccessResponse(Void), <<"stopAllCues">>)

handleSetCrosspoint(params, cs, e, ret) ==
    IF ~validateParameters(params, {"cueId", "input", "output", "level"})
    THEN Rejected(cs, e, <<"Missing required parameters: cueId, input, output, level">>)
    ELSE LET r == Engine_setCrosspoint(cs, getProperty(params, "cueId", ""),
                                       getProperty(params, "input", 0),
                                       getProperty(params, "output", 0),
                                       getProperty(params, "level", 0))
         IN  Handled(r.cues, e, createSuccessResponse(Bool(r.ret)), <<"setCrosspoint">>)

handleGetCrosspoint(params, cs, e, ret) ==
    IF ~validateParameters(params, {"cueId", "input", "output"})
    THEN Rejected(cs, e, <<"Missing required parameters: cueId, input, output">>)
    ELSE Handled(cs, e, createSuccessResponse(Num(0)), <<"getCrosspoint">>)

handleSetInputLevel(params, cs, e, ret) ==
    IF ~validateParameters(params, {"cueId", "input", "level"})
    THEN Rejected(cs, e, <<"Missing required parameters: cueId, input, level">>)
    ELSE LET r == Engine_setCueInputLevel(cs, getProperty(params, "cueId", ""),
                                          getProperty(params, "input", 0),
                                          getProperty(params, "level", 0))
         IN  Handled(r.cues, e, createSuccessResponse(Bool(r.ret)), <<"setInputLevel">>)

handleSetOutputLevel(params, cs, e, ret) ==
    IF ~validateParameters(params, {"output", "level"})
    THEN Rejected(cs, e, <<"Missing required parameters: output, level">>)
    ELSE Handled(cs, e, createSuccessResponse(Bool(ret)), <<"setOutputLevel">>)

handleMuteOutput(params, cs, e, ret) ==
    IF ~validateParameters(params, {"output", "mute"})
    THEN Rejected(cs, e, <<"Missing required parameters: output, mute">>)
    ELSE Handled(cs, e, createSuccessResponse(Bool(ret)), <<"muteOutput">>)

handleSoloOutput(params, cs, e, ret) ==
    IF ~validateParameters(params, {"output", "solo"})
    THEN Rejected(cs, e, <<"Missing required parameters: output, solo">>)
    ELSE Handled(cs, e, createSuccessResponse(Bool(ret)), <<"soloOutput">>)

handleSetPatchRouting(params, cs, e, ret) ==
    IF ~validateParameters(params, {"cueOutput", "deviceOutput", "level"})
    THEN Rejected(cs, e, <<"Missing required parameters: cueOutput, deviceOutput, level">>)
    ELSE Handled(cs, e, createSuccessResponse(Bool(ret)), <<"setPatchRouting">>)

handleGetPatchRouting(params, cs, e, ret) ==
    IF ~validateParameters(params, {"cueOutput", "deviceOutput"})
    THEN Rejected(cs, e, <<"Missing required parameters: cueOutput, deviceOutput">>)
    ELSE Handled(cs, e, createSuccessResponse(Num(0)), <<"getPatchRouting">>)

\* the names registerBuiltInCommands puts in the dispatch table
commandHandlers ==
    {"initialize", "shutdown", "getStatus", "setAudioDevice", "getDevices",
     "createCue", "loadFile", "playCue", "stopCue", "pauseCue", "resumeCue",
     "stopAllCues", "setCrosspoint", "getCrosspoint", "setInputLevel",
     "setOutputLevel", "muteOutput", "soloOutput", "setPatchRouting",
     "getPatchRouting"}

Dispatch(name, params, cs, e, ret) ==
    CASE name = "initialize"      -> handleInitialize(params, cs, e, ret)
      [] name = "shutdown"        -> handleShutdown(params, cs, e, ret)
      [] name = "getStatus"       -> handleGetStatus(params, cs, e, ret)
      [] name = "setAudioDevice"  -> handleSetAudioDevice(params, cs, e, ret)
      [] name = "getDevices"      -> handleGetDevices(params, cs, e, ret)
      [] name = "createCue"       -> handleCreateCue(params, cs, e, ret)
      [] name = "loadFile"        -> handleLoadFile(params, cs, e, ret)
      [] name = "playCue"         -> handlePlayCue(params, cs, e, ret)
      [] name = "stopCue"         -> handleStopCue(params, cs, e, ret)
      [] name = "pauseCue"        -> handlePauseCue(params, cs, e, ret)
      [] name = "resumeCue"       -> handleResumeCue(params, cs, e, ret)
      [] name = "stopAllCues"     -> handleStopAllCues(params, cs, e, ret)
      [] name = "setCrosspoint"   -> handleSetCrosspoint(params, cs, e, ret)
      [] name = "getCrosspoint"   -> handleGetCrosspoint(params, cs, e, ret)
      [] name = "setInputLevel"   -> handleSetInputLevel(params, cs, e, ret)
      [] name = "setOutputLevel"  -> handleSetOutputLevel(params, cs, e, ret)
      [] name = "muteOutput"      -> handleMuteOutput(params, cs, e, ret)
      [] name = "soloOutput"      -> handleSoloOutput(params, cs, e, ret)
      [] name = "setPatchRouting" -> handleSetPatchRouting(params, cs, e, ret)
      [] name = "getPatchRouting" -> handleGetPatchRouting(params, cs, e, ret)

\* the command name: the "command" property as a string, empty when absent
commandNameOf(command) == getProperty(command, "command", "")

processCommand(command, cs, e, ret) ==
    IF ~isObject(command) THEN Rejected(cs, e, <<"Command must be an object">>)
    ELSE IF commandNameOf(command) = "" THEN Rejected(cs, e, <<"Missing command name">>)
    ELSE IF commandNameOf(command) \notin commandHandlers
    THEN Rejected(cs, e, <<"Unknown command: ", commandNameOf(command)>>)
    ELSE Dispatch(commandNameOf(command), getProperty(command, "params", Void), cs, e, ret)

\* the parameters each handler requires
Required(name) ==
    CASE name = "setAudioDevice"  -> {"deviceName"}
      [] name = "createCue"       -> {"cueId", "filePath"}
      [] name = "loadFile"        -> {"cueId", "filePath"}
      [] name \in {"playCue", "stopCue", "pauseCue", "resumeCue"} -> {"cueId"}
      [] name = "setCrosspoint"   -> {"cueId", "input", "output", "level"}
      [] name = "getCrosspoint"   -> {"cueId", "input", "output"}
      [] name = "setInputLevel"   -> {"cueId", "input", "level"}
      [] name = "setOutputLevel"  -> {"output", "level"}
      [] name = "muteOutput"      -> {"output", "mute"}
      [] name = "soloOutput"      -> {"output", "solo"}
      [] name = "setPatchRouting" -> {"cueOutput", "deviceOutput", "level"}
      [] name = "getPatchRouting" -> {"cueOutput", "deviceOutput"}
      [] OTHER -> {}

\* the values requests carry: a cue on a readable file, and a cue on a file
\* that cannot be read, which is never registered
Profiles ==
    { [cueId |-> "c1", filePath |-> "mono", deviceName |-> "default",
       input |-> 0, output |-> 1, level |-> 0, mute |-> TRUE, solo |-> TRUE,
       cueOutput |-> 0, deviceOutput |-> 0],
      [cueId |-> "c2", filePath |-> "corrupt", deviceName |-> "default",
       input |-> 0, output |-> 1, level |-> 0, mute |-> TRUE, solo |-> TRUE,
       cueOutput |-> 0, deviceOutput |-> 0] }

\* the params of a request to name: absent, not an object, the required
\* fields, or the required fields less one
ParamsFor(name) ==
    {Void, Num(0)} \cup
    { Obj([f \in fs |-> p[f]]) :
        fs \in {Required(name)} \cup {Required(name) \ {f} : f \in Required(name)},
        p \in Profiles }

CommandNames == commandHandlers \cup {"", "doesNotExist"}

Requests ==
    {Num(0), Obj(<<>>)} \cup
    UNION { { Obj([command |-> name, params |-> ps]) : ps \in ParamsFor(name) } :
            name \in CommandNames }

InitCommand ==
    /\ cue = NewCue("")
    /\ cues = <<>>
    /\ engine = NewEngine
    /\ mixer = NewMixer(BusWidth, BusWidth)
    /\ patch = NewPatch
    /\ out = NoOut
    /\ hist = NoHist
    /\ last = [name |-> "CommandProcessor", request |-> Void,
               response |-> [success |-> TRUE], calls |-> <<>>]

ProcessCommand(command, ret) ==
    LET r == processCommand(command, cues, engine, ret)
    IN  /\ cues' = r.cues
        /\ engine' = r.engine
        /\ last' = [name |-> "processCommand", request |-> command,
                    response |-> r.response, calls |-> r.calls]
        /\ UNCHANGED <<cue, mixer, patch, out, hist>>

NextCommand == \E command \in Requests, ret \in BOOLEAN : ProcessCommand(command, ret)

SpecCommand == InitCommand /\ [][NextCommand]_vars

(***************************************************************************)
(* The audio thread and the control thread, step by step.  cuesLock is a   *)
(* juce::CriticalSection; the callback and the registry operations of the  *)
(* engine enter it with a juce::ScopedLock.                                *)
(***************************************************************************)
\* mutant: the critical section admits everyone
CanEnter_unguarded(owner, who) == TRUE

\* juce::ScopedLock on cuesLock: who enters when owner holds the lock
CanEnter(owner, who) == owner \in {"none", who}

ControlOps ==
    {"createAudioCue", "playCue", "stopCue", "pauseCue", "resumeCue",
     "getSystemStatus", "shutdown"}

\* the ids the control thread plays, stops, pauses and resumes
OperatedIds == {"c1"}

\* the two threads at rest: the lock is free, the callback has iterated nothing
Threads ==
    [lock     |-> "none",
     audio    |-> [pc |-> "idle", numSamples |-> 1, rendering |-> "",
                   seen |-> {}, versions |-> {}, allocated |-> FALSE],
     control  |-> [pc |-> "idle", op |-> "", id |-> ""],
     torn     |-> FALSE]

Iterating(h) == h.audio.pc \in {"acquire", "iterate", "render"}

\* the registry changed to cs: what the iteration in progress may have seen,
\* and whether the cue being rendered was destroyed
Mutated(h, cs, destroyed) ==
    [h EXCEPT !.audio.versions = IF Iterating(h) THEN @ \cup {DOMAIN cs} ELSE @,
              !.torn = @ \/ (h.audio.pc = "render" /\ h.audio.rendering \in destroyed)]

\* the next cue of the iteration: std::map order
NextCue_(cs, seen) ==
    CHOOSE i \in DOMAIN cs \ seen : \A j \in DOMAIN cs \ seen : i = j \/ i = "c1"

InitThreads ==
    /\ cue = NewCue("")
    /\ cues = <<>>
    /\ engine = NewEngine
    /\ mixer = NewMixer(BusWidth, BusWidth)
    /\ patch = NewPatch
    /\ out = NoOut
    /\ last = Op("AudioEngine", "", 0, TRUE, "none")
    /\ hist = Threads

\* the control thread calls initialize()
ThreadInitialize ==
    /\ hist.control.pc = "idle"
    /\ ~engine.attached
    /\ engine' = Engine_initialize(engine, TRUE).engine
    /\ last' = Op("initialize", "", 0, TRUE, "none")
    /\ UNCHANGED <<cue, cues, mixer, patch, out, hist>>

\* the control thread calls op and reaches its ScopedLock: createAudioCue after
\* constructing the cue, the cue operations in findCue
ControlCall(op, id) ==
    /\ hist.control.pc = "idle"
    /\ hist' = [hist EXCEPT !.control = [pc |-> "acquire", op |-> op, id |-> id]]
    /\ UNCHANGED <<cue, cues, engine, mixer, patch, out, last>>

ControlEnter ==
    /\ hist.control.pc = "acquire"
    /\ CanEnter(hist.lock, "control")
    /\ hist' = [hist EXCEPT !.lock = "control", !.control.pc = "locked"]
    /\ UNCHANGED <<cue, cues, engine, mixer, patch, out, last>>

\* the body of the locked block and the release at its end
ControlLocked ==
    /\ hist.control.pc = "locked"
    /\ LET op == hist.control.op
           id == hist.control.id
           free == [hist EXCEPT !.lock = "none"]
       IN  CASE op = "createAudioCue" ->
                  LET r == Engine_createAudioCue(cues, id, "mono")
                  IN  /\ cues' = r.cues
                      /\ hist' = [Mutated(free, r.cues, {id} \cap DOMAIN cues)
                                     EXCEPT !.control.pc = "idle"]
                      /\ last' = Op(op, id, 0, r.ret, "none")
             [] op = "shutdown" ->
                  /\ cues' = <<>>
                  /\ hist' = [Mutated(free, <<>>, DOMAIN cues)
                                 EXCEPT !.control.pc = "detach"]
                  /\ last' = last
             [] op = "getSystemStatus" ->
                  /\ cues' = cues
                  /\ hist' = [free EXCEPT !.control.pc = "idle"]
                  /\ last' = Op(op, "", 0, TRUE, "none")
             [] OTHER ->
                  /\ cues' = cues
                  /\ hist' = [free EXCEPT !.control.pc =
                                 IF Engine_findCue(cues, id) THEN "act" ELSE "idle"]
                  /\ last' = IF Engine_findCue(cues, id) THEN last
                             ELSE Op(op, id, 0, FALSE, "none")
    /\ UNCHANGED <<cue, engine, mixer, patch, out>>

\* the cue operation on the pointer findCue returned, outside the lock
ControlAct ==
    /\ hist.control.pc = "act"
    /\ LET op == hist.control.op
           id == hist.control.id
           r == CASE op = "playCue"   -> Engine_playCue(cues, id, 0, Unity)
                  [] op = "stopCue"   -> Engine_stopCue(cues, id, 0)
                  [] op = "pauseCue"  -> Engine_pauseCue(cues, id)
                  [] op = "resumeCue" -> Engine_resumeCue(cues, id)
       IN  /\ cues' = r.cues
           /\ last' = Op(op, id, 0, r.ret, "none")
    /\ hist' = [hist EXCEPT !.control.pc = "idle"]
    /\ UNCHANGED <<cue, engine, mixer, patch, out>>

\* the end of shutdown(): patches cleared and the callback removed, which the
\* device manager does between two callbacks
ControlDetach ==
    /\ hist.control.pc = "detach"
    /\ hist.audio.pc = "idle"
    /\ engine' = Engine_shutdown(engine)
    /\ last' = Op("shutdown", "", 0, TRUE, "none")
    /\ hist' = [hist EXCEPT !.control.pc = "idle"]
    /\ UNCHANGED <<cue, cues, mixer, patch, out>>

\* the callback starts: statistics, outputs cleared, then the ScopedLock
CallbackBegin(numSamples) ==
    /\ engine.attached
    /\ hist.audio.pc = "idle"
    /\ engine' = Engine_updatePerformanceStats(engine, FALSE)
    /\ out' = [cue |-> <<>>,
               device |-> Silence(DeviceChannels, numSamples)]
    /\ hist' = [hist EXCEPT !.audio = [pc |-> "acquire", numSamples |-> numSamples,
                                       rendering |-> "", seen |-> {},
                                       versions |-> {DOMAIN cues},
                                       allocated |-> FALSE]]
    /\ UNCHANGED <<cue, cues, mixer, patch, last>>

CallbackEnter ==
    /\ hist.audio.pc = "acquire"
    /\ CanEnter(hist.lock, "audio")
    /\ hist' = [hist EXCEPT !.lock = "audio", !.audio.pc = "iterate"]
    /\ UNCHANGED <<cue, cues, engine, mixer, patch, out, last>>

\* the loop reaches the next cue; for a playing cue it constructs cueBuffer
CallbackVisit ==
    /\ hist.audio.pc = "iterate"
    /\ DOMAIN cues \ hist.audio.seen # {}
    /\ LET i == NextCue_(cues, hist.audio.seen)
       IN  hist' = IF Cue_isPlaying(cues[i])
                   THEN [hist EXCEPT !.audio.pc = "render", !.audio.rendering = i,
                                     !.audio.allocated = TRUE]
                   ELSE [hist EXCEPT !.audio.seen = @ \cup {i}]
    /\ UNCHANGED <<cue, cues, engine, mixer, patch, out, last>>

\* processAudio of the cue and the mix through the default patch
CallbackRender ==
    /\ hist.audio.pc = "render"
    /\ LET i == hist.audio.rendering
           n == hist.audio.numSamples
       IN  IF i \in DOMAIN cues
           THEN LET r == Cue_processAudio(cues[i], n)
                IN  /\ cues' = [cues EXCEPT ![i] = r.cue]
                    /\ out' = [out EXCEPT !.device =
                                 IF Engine_findPatch(engine, engine.defaultPatchId) = "nullptr"
                                 THEN @
                                 ELSE [dev \in DOMAIN @ |->
                                        [k \in 1..n |->
                                           IF dev < BusWidth THEN @[dev][k] + r.out[dev][k]
                                           ELSE @[dev][k]]]]
           ELSE UNCHANGED <<cues, out>>
    /\ hist' = [hist EXCEPT !.audio.pc = "iterate", !.audio.rendering = "",
                            !.audio.seen = @ \cup {hist.audio.rendering}]
    /\ UNCHANGED <<cue, engine, mixer, patch, last>>

\* the loop is over and the ScopedLock is released
CallbackExit ==
    /\ hist.audio.pc = "iterate"
    /\ DOMAIN cues \ hist.audio.seen = {}
    /\ hist' = [hist EXCEPT !.lock = "none", !.audio.pc = "idle"]
    /\ last' = Op("audioDeviceIOCallback", "", hist.audio.numSamples, TRUE, "none")
    /\ UNCHANGED <<cue, cues, engine, mixer, patch, out>>

NextThreads ==
    \/ ThreadInitialize
    \/ \E id \in CueIds : ControlCall("createAudioCue", id)
    \/ \E op \in ControlOps \ {"createAudioCue"}, id \in OperatedIds : ControlCall(op, id)
    \/ ControlEnter
    \/ ControlLocked
    \/ ControlAct
    \/ ControlDetach
    \/ CallbackBegin(MaxBlock)
    \/ CallbackEnter
    \/ CallbackVisit
    \/ CallbackRender
    \/ CallbackExit

SpecThreads == InitThreads /\ [][NextThreads]_vars

(***************************************************************************)
(* Properties.                                                             *)
(***************************************************************************)
\* the cue wrote nothing but zeros in the last callback, or was not rendered
NoAudioFrom(i, o) == i \notin DOMAIN o.cue \/ IsSilent(o.cue[i])

\* the cue was started with playCue(i, 0) and no control operation followed
PlayedFromStart(i) == hist.since[i] = "play0"

\* stopCue(i, fade > 0) was called on the playing cue and no control operation followed
FadeStopPending(i) == hist.since[i] = "fadeStop"

\* the request of epoch e is the last control operation on the cue, and the
\* device is calling back
Undisturbed(i, what, e) ==
    hist.since[i] = what /\ hist.epoch[i] = e /\ engine.attached

\* C1: natural end.  A cue started with play(0), not looping and left alone is
\* eventually Stopped while the device keeps calling back; from the moment all
\* its frames are rendered no callback gets audio from it, the first such
\* callback stops it, and once Stopped a callback leaves its state and cursor
\* as they are.
C1_NaturalEnd ==
    /\ \A i \in CueIds, e \in {0, 1} :
          (Undisturbed(i, "play0", e) /\ ~cues[i].loop)
              ~> (~Undisturbed(i, "play0", e) \/ cues[i].currentState = "Stopped")
    /\ [][\A i \in CueIds :
             ( /\ PlayedFromStart(i)
               /\ hist'.since[i] = "play0"
               /\ ~cues[i].loop
               /\ last'.name = "audioDeviceIOCallback"
               /\ \/ cues[i].currentState = "Stopped"
                  \/ cues[i].currentPosition >= cues[i].numSamples )
             => /\ NoAudioFrom(i, out')
                /\ cues'[i].currentState = "Stopped"
                /\ cues[i].currentState = "Stopped"
                      => cues'[i].currentPosition = cues[i].currentPosition
          ]_vars

\* C1 witness: a cue played from the start has run to its end and was stopped
\* by the callback
C1_Witness ==
    /\ last.name = "audioDeviceIOCallback"
    /\ "c1" \in DOMAIN cues
    /\ PlayedFromStart("c1")
    /\ cues["c1"].currentState = "Stopped"

\* C2: a fade-out stop is finalized.  After stop(fadeOutTime > 0) on a Playing
\* cue that is then left alone, the cue is eventually Stopped while the device
\* keeps calling back.
C2_FadeOutStopFinalized ==
    \A i \in CueIds, e \in {0, 1} :
        Undisturbed(i, "fadeStop", e)
            ~> (~Undisturbed(i, "fadeStop", e) \/ cues[i].currentState = "Stopped")

\* C3: pause() is legal only from Playing and then yields Paused, resume() only
\* from Paused and then yields Playing; otherwise they return false and leave
\* the cue as it is.
C3_PauseResumeLegality ==
    [][ /\ last'.name = "pause" =>
              IF cue.currentState = "Playing"
              THEN last'.ret /\ cue'.currentState = "Paused"
              ELSE ~last'.ret /\ cue' = cue
        /\ last'.name = "resume" =>
              IF cue.currentState = "Paused"
              THEN last'.ret /\ cue'.currentState = "Playing"
              ELSE ~last'.ret /\ cue' = cue
      ]_vars

\* C3 witness: pause() was refused on a cue that an earlier pause() had paused
C3_Witness ==
    last.name = "pause" /\ ~last.ret /\ last.from = "Paused" /\ cue.currentState = "Paused"

\* C4: play() on a cue with no audio loaded returns false and leaves the cue,
\* which is Stopped, as it is.
C4_PlayRequiresLoaded ==
    [][ (last'.name = "play" /\ ~cue.loaded)
            => ~last'.ret /\ cue' = cue /\ cue'.currentState = "Stopped" ]_vars

\* C4 witness: play() was refused
C4_Witness == last.name = "play" /\ ~last.ret /\ ~cue.loaded

\* C5: stop(0) on a Playing or Paused cue leaves it Stopped at cursor 0; stop()
\* on a Stopped cue returns true and changes nothing.
C5_StopImmediate ==
    [][ last'.name = "stop" =>
           /\ cue.currentState = "Stopped" => last'.ret /\ cue' = cue
           /\ (last'.arg = 0 /\ cue.currentState \in {"Playing", "Paused"})
                 => /\ last'.ret
                    /\ cue'.currentState = "Stopped"
                    /\ cue'.currentPosition = 0
      ]_vars

\* C5 witness: stop(0) was called on a Playing cue
C5_Witness ==
    last.name = "stop" /\ last.arg = 0 /\ last.from = "Playing"
        /\ cue.currentState = "Stopped"

\* C6: pause() and resume() leave the cursor where it is, and so does a render
\* of a Paused cue.
C6_PausePreservesCursor ==
    [][ ( \/ last'.name \in {"pause", "resume"}
          \/ last'.name = "processAudio" /\ cue.currentState = "Paused" )
            => cue'.currentPosition = cue.currentPosition ]_vars

\* C6 witness: a cue paused in the middle of its file was resumed there
C6_Witness ==
    /\ last.name = "resume" /\ last.ret
    /\ cue.currentPosition > 0 /\ cue.currentPosition < cue.numSamples

\* an output's buffer holds a sample that is not zero
Carries(o) == \E k \in DOMAIN out.mix[o] : out.mix[o][k] # 0

\* an input's buffer holds a sample that is not zero
SignalIn(i) == \E k \in DOMAIN out.in[i] : out.in[i][k] # 0

\* what the last mix would have left in an output had an input been silent
MixWithout(i, o) ==
    Mixer_processAudio(mixer, Zeroed(out.in, i), BusWidth, BusWidth, 1)[o]

\* the last mix put something of the input into the output
Contributes(i, o) == out.mix[o] # MixWithout(i, o)

\* C7: mute precedence.  An input whose mute flag is set contributes nothing to
\* any output of a mix: every output is what it would be with that input
\* silent, whatever the crosspoints, trims and solo flags are.
C7_MutePrecedence ==
    last.name = "MatrixMixer.processAudio" =>
        \A i \in MatrixChannels :
            mixer.inputMutes[i] => \A o \in MatrixChannels : ~Contributes(i, o)

\* C7 witness: a mix of a signal on an input that is muted and soloed and has
\* an open crosspoint to an output that is neither muted nor excluded by solo
C7_Witness ==
    /\ last.name = "MatrixMixer.processAudio"
    /\ \E i \in MatrixChannels, o \in MatrixChannels :
          /\ mixer.inputMutes[i] /\ mixer.inputSolos[i] /\ SignalIn(i)
          /\ mixer.crosspoints[i][o] # 0
          /\ ~Mixer_skipsOutput(mixer, o)
          /\ Mixer_totalGain(mixer, i, o) # 0

\* C8 as stated: with an output soloed, an output carries signal only if it is
\* soloed and not muted; with none soloed, every unmuted output with a non-zero
\* crosspoint from an unmuted input that carries signal carries signal.
C8_SoloExclusivity_AsStated ==
    last.name = "MatrixMixer.processAudio" =>
        /\ Mixer_anySoloedOutputs(mixer) =>
              \A o \in MatrixChannels :
                  Carries(o) => mixer.outputSolos[o] /\ ~mixer.outputMutes[o]
        /\ ~Mixer_anySoloedOutputs(mixer) =>
              \A o \in MatrixChannels :
                  ( /\ ~mixer.outputMutes[o]
                    /\ \E i \in MatrixChannels :
                          /\ ~mixer.inputMutes[i] /\ SignalIn(i)
                          /\ mixer.crosspoints[i][o] # 0 )
                      => Carries(o)

\* C8: solo exclusivity.  With an output soloed, an output carries signal only
\* if it is soloed and not muted.  With none soloed, an unmuted output whose
\* trim is not zero gets, while the main level is not zero, a contribution from
\* every input that carries signal, is unmuted, is not excluded by an input
\* solo, has a trim that is not zero and a crosspoint to that output that is
\* not zero.
C8_SoloExclusivity ==
    last.name = "MatrixMixer.processAudio" =>
        /\ Mixer_anySoloedOutputs(mixer) =>
              \A o \in MatrixChannels :
                  Carries(o) => mixer.outputSolos[o] /\ ~mixer.outputMutes[o]
        /\ ~Mixer_anySoloedOutputs(mixer) =>
              \A o \in MatrixChannels, i \in MatrixChannels :
                  ( /\ ~mixer.outputMutes[o]
                    /\ mixer.outputLevels[o] # 0
                    /\ mixer.mainLevel # 0
                    /\ ~mixer.inputMutes[i] /\ SignalIn(i)
                    /\ ~(Mixer_anySoloedInputs(mixer) /\ ~mixer.inputSolos[i])
                    /\ mixer.inputLevels[i] # 0
                    /\ mixer.crosspoints[i][o] # 0 )
                      => Contributes(i, o)

\* C8 witness: with one output soloed, the mix left signal on it and none on
\* the other output, which has an open crosspoint from an input with signal
C8_Witness ==
    /\ last.name = "MatrixMixer.processAudio"
    /\ \E o \in MatrixChannels, q \in MatrixChannels, i \in MatrixChannels :
          /\ mixer.outputSolos[o] /\ Carries(o)
          /\ ~mixer.outputSolos[q] /\ ~mixer.outputMutes[q] /\ ~Carries(q)
          /\ ~Mixer_skipsInput(mixer, i) /\ SignalIn(i)
          /\ mixer.crosspoints[i][q] # 0 /\ Mixer_totalGain(mixer, i, q) # 0

C11_FailedLoadRegistersNothing ==
    [][ (last'.name = "createAudioCue" /\ ~FileReadable(last'.path))
            => /\ ~last'.ret
               /\ cues' = cues
               /\ NewCue(last'.path).currentState = "Stopped" ]_vars

\* C11 witness: createCue of an undecodable file failed while a cue was playing
C11_Witness ==
    /\ last.name = "createAudioCue" /\ last.path = "corrupt" /\ ~last.ret
    /\ \E i \in DOMAIN cues : cues[i].currentState = "Playing"

\* C12: playCue, stopCue, pauseCue, resumeCue and setCrosspoint with an id that
\* is not registered return false and leave the registry and its cues as they
\* are.
C12_UnknownIdFails ==
    [][ ( /\ last'.name \in {"playCue", "stopCue", "pauseCue", "resumeCue", "setCrosspoint"}
          /\ last'.id \notin DOMAIN cues )
            => ~last'.ret /\ cues' = cues ]_vars

\* C12 witness: setCrosspoint on an unknown id was refused while another cue
\* is playing
C12_Witness ==
    /\ last.name = "setCrosspoint" /\ last.id = "c2" /\ ~last.ret
    /\ "c1" \in DOMAIN cues /\ cues["c1"].currentState = "Playing"

\* C13: shutdown() leaves the registry empty and the callback detached, whatever
\* the cues were doing, and no block is rendered while the callback is detached.
C13_ShutdownClears ==
    [][ /\ last'.name = "shutdown"
            => /\ cues' = <<>>
               /\ ~engine'.attached
               /\ \A i \in DOMAIN cues' : cues'[i].currentState # "Playing"
        /\ last'.name = "audioDeviceIOCallback" => engine.attached
      ]_vars

\* C13 witness: shutdown() was called with a cue fading out behind a Playing
\* state
C13_Witness ==
    /\ last.name = "shutdown" /\ last.from = "Playing"
    /\ cues = <<>> /\ ~engine.attached

\* C14: the audio callback never acquires a lock, never waits and never
\* allocates: it never holds cuesLock, it never stands before a lock the control
\* thread holds, and it constructs no buffer.
C14_CallbackNeverWaits ==
    /\ hist.lock # "audio"
    /\ hist.audio.pc = "acquire" => hist.lock = "none"
    /\ ~hist.audio.allocated

\* C15: the set of cues one callback iterated equals the registry as it stood
\* at a single point during that callback, and no cue is destroyed while the
\* callback renders it.
C15_RegistrySnapshot ==
    /\ ~hist.torn
    /\ (last.name = "audioDeviceIOCallback" /\ hist.audio.pc = "idle")
          => hist.audio.seen \in hist.audio.versions

\* C15 witness: a callback iterated two cues, rendering one, while shutdown
\* stood before the lock
C15_Witness ==
    /\ last.name = "audioDeviceIOCallback" /\ hist.audio.pc = "idle"
    /\ hist.audio.seen = {"c1", "c2"}
    /\ hist.audio.allocated
    /\ hist.control.pc = "acquire" /\ hist.control.op = "shutdown"

\* the request last processed names a registered command
CommandOf(l) == commandNameOf(l.request)
ParamsOf(l) == getProperty(l.request, "params", Void)

\* some field of required is missing from params, or params is no object
Incomplete(params, required) ==
    \/ params.type # "object"
    \/ \E f \in required : f \notin DOMAIN params.fields

\* C16: a request whose command name is not in the dispatch table gets
\* success = false and an error object whose code is "UNKNOWN_COMMAND", and no
\* engine operation is invoked.
C16_UnknownCommandCode ==
    [][ ( /\ last'.name = "processCommand"
          /\ last'.request.type = "object"
          /\ CommandOf(last') \notin commandHandlers \cup {""} )
            => /\ ~last'.response.success
               /\ last'.response.error.type = "object"
               /\ last'.response.error.fields.code = "UNKNOWN_COMMAND"
               /\ last'.calls = <<>>
               /\ cues' = cues /\ engine' = engine ]_vars

\* C17: for a command with required parameters, a request with a required
\* field missing, or with params absent or not an object, gets success = false,
\* and no engine operation is invoked: the engine state is unchanged.
C17_MissingFieldRejected ==
    [][ ( /\ last'.name = "processCommand"
          /\ last'.request.type = "object"
          /\ CommandOf(last') \in commandHandlers
          /\ Required(CommandOf(last')) # {}
          /\ Incomplete(ParamsOf(last'), Required(CommandOf(last'))) )
            => /\ ~last'.response.success
               /\ last'.calls = <<>>
               /\ cues' = cues /\ engine' = engine ]_vars

\* C17 witness: setCrosspoint without its level was rejected while a cue plays
C17_Witness ==
    /\ last.name = "processCommand"
    /\ CommandOf(last) = "setCrosspoint"
    /\ ParamsOf(last).type = "object"
    /\ DOMAIN ParamsOf(last).fields = {"cueId", "input", "output"}
    /\ ~last.response.success
    /\ "c1" \in DOMAIN cues /\ cues["c1"].currentState = "Playing"

\* C18: a well-formed cue command that names a cue id unknown to the engine
\* gets success = false with an error, never success = true.
C18_UnknownCueIsError ==
    [][ ( /\ last'.name = "processCommand"
          /\ last'.request.type = "object"
          /\ CommandOf(last') \in {"playCue", "stopCue", "pauseCue", "resumeCue",
                                   "setCrosspoint", "setInputLevel"}
          /\ ~Incomplete(ParamsOf(last'), Required(CommandOf(last')))
          /\ ParamsOf(last').fields.cueId \notin DOMAIN cues )
            => /\ ~last'.response.success
               /\ "error" \in DOMAIN last'.response ]_vars

C20_GainClamp ==
    /\ \A i \in 0..(mixer.numInputChannels - 1), o \in 0..(mixer.numOutputChannels - 1) :
          mixer.crosspoints[i][o] >= 0 /\ mixer.crosspoints[i][o] <= Pow10Db(12)
    /\ \A i \in 0..(mixer.numInputChannels - 1) :
          mixer.inputLevels[i] >= 0 /\ mixer.inputLevels[i] <= Pow10Db(12)
    /\ \A o \in 0..(mixer.numOutputChannels - 1) :
          mixer.outputLevels[o] >= 0 /\ mixer.outputLevels[o] <= Pow10Db(12)
    /\ mixer.mainLevel >= 0 /\ mixer.mainLevel <= Pow10Db(12)

\* the setters of the matrix that take an input index, and an output index
InputSetters == {"setCrosspoint", "setInputLevel", "setInputMute", "setInputSolo"}
OutputSetters == {"setCrosspoint", "setOutputLevel", "setOutputMute", "setOutputSolo"}

\* the operation recorded in l names an index outside the matrix m
OutOfRange(l, m) ==
    \/ l.name \in InputSetters \cup {"getCrosspoint"}
          /\ l.input \notin 0..(m.numInputChannels - 1)
    \/ l.name \in OutputSetters \cup {"getCrosspoint"}
          /\ l.output \notin 0..(m.numOutputChannels - 1)

\* C21: a matrix setter called with an index outside the matrix changes no
\* field of the matrix, and getCrosspoint with such an index returns -100 dB.
C21_OutOfRangeNoOp ==
    [][ OutOfRange(last', mixer) =>
            /\ mixer' = mixer
            /\ last'.name = "getCrosspoint" => last'.value = -100 ]_vars

\* C21 witness: setOutputSolo above the matrix left a matrix that other setters
\* had changed as it was
C21_Witness ==
    /\ last.name = "setOutputSolo" /\ last.output = BusWidth
    /\ mixer.crosspoints[0][0] = Unity
    /\ mixer.inputMutes[0]
    /\ \A o \in 0..(mixer.numOutputChannels - 1) : ~mixer.outputSolos[o]

\* C22: setCrosspoint on a registered cue returns failure when the input index
\* is outside that cue's matrix, and success only when the value was stored.
C22_InvalidIndexReported ==
    [][ \A i \in DOMAIN cues :
           ( /\ last'.name = "setCrosspoint" /\ last'.id = i
             /\ last'.arg \notin 0..(cues[i].cueMatrix.numInputChannels - 1) )
               => ~last'.ret ]_vars

\* the changes of state one operation on the cue made: loadAudioFile goes
\* through Loading before it settles
StateChanges(name, from, to) ==
    {ch \in (IF name = "loadAudioFile"
             THEN {<<from, "Loading">>, <<"Loading", to>>}
             ELSE {<<from, to>>}) : ch[1] # ch[2]}

\* the transitions of the cue state machine as the claim lists them
ListedTransitions ==
    {<<"Stopped", "Loading">>, <<"Loading", "Stopped">>, <<"Stopped", "Playing">>,
     <<"Playing", "Paused">>, <<"Paused", "Playing">>, <<"Playing", "Stopped">>}

\* C23 as stated: every change of a cue's state is one of Stopped->Loading,
\* Loading->Stopped, Stopped->Playing, Playing->Paused, Paused->Playing,
\* Playing->Stopped.
C23_TransitionLegality_AsStated ==
    [][ StateChanges(last'.name, cue.currentState, cue'.currentState)
            \subseteq ListedTransitions ]_vars

\* C23 amended: every change of a cue's state is one of the listed transitions,
\* Paused->Stopped by a zero-fade stop, or Playing->Loading and Paused->Loading
\* by a load; pause alone leads to Paused, and only play and resume lead to
\* Playing.
C23_TransitionLegality ==
    [][ /\ StateChanges(last'.name, cue.currentState, cue'.currentState)
                \subseteq ListedTransitions \cup
                          {<<"Paused", "Stopped">>, <<"Playing", "Loading">>,
                           <<"Paused", "Loading">>}
        /\ (cue.currentState = "Paused" /\ cue'.currentState = "Stopped")
                => \/ last'.name = "loadAudioFile"
                   \/ last'.name = "stop" /\ last'.arg = 0
        /\ (cue.currentState # "Paused" /\ cue'.currentState = "Paused")
                => last'.name = "pause"
        /\ (cue.currentState # "Playing" /\ cue'.currentState = "Playing")
                => last'.name \in {"play", "resume"} ]_vars

\* C23 witness: a paused cue was stopped with zero fade after it had rendered
C23_Witness ==
    /\ last.name = "stop" /\ last.arg = 0 /\ last.from = "Paused"
    /\ cue.currentState = "Stopped"
    /\ Cue_isLoaded(cue)

\* the gain the fader f holds after k calls of getNextValue
GainAfter(f, k) == SV_value(SV_skip(f, k))

\* b lies between a and the target t, on a's side of it
Toward(a, b, t) == (a <= t => a <= b /\ b <= t) /\ (a >= t => a >= b /\ b >= t)

\* the gains of one render of n samples move toward the fader's target and
\* never pass it
RampMonotone(f, n) ==
    \A k \in 1..(n + 1) : Toward(GainAfter(f, k - 1), GainAfter(f, k), f.target)

\* C24: the gains render applies under a fade are monotonic in the fade's
\* direction and never pass the target, and the gain equals the target once
\* fadeTime*sampleRate samples were rendered: here, when a render of at least
\* that many samples follows a stop with a fade.  Fade times are in samples.
C24_FadeMonotoneAndTimely ==
    [][ last'.name = "processAudio" =>
            /\ RampMonotone(cue.volumeFader, last'.arg)
            /\ ( /\ last.name = "stop" /\ last.arg > 0 /\ last.from = "Playing"
                 /\ last'.arg >= last.arg )
                    => cue'.volumeFader.currentValue = cue'.volumeFader.target ]_vars

\* C25: play whose second argument, the fade-in time, is 0 installs no ramp and
\* the cue renders at full gain from its first sample; with a fade-in time above
\* 0 the gain starts at 0 and ramps to 1.  play keeps its second argument in
\* masterVolume.
C25_FadeInOnPlay ==
    [][ /\ ( /\ last.name = "play" /\ last.ret /\ cue.masterVolume = 0
             /\ last'.name = "processAudio"
             /\ cue.currentPosition < cue.numSamples )
                => out'.cue[""][0][1] = FileSample(0, cue.currentPosition)
        /\ (last'.name = "play" /\ last'.ret /\ cue'.masterVolume > 0)
                => /\ SV_value(cue'.volumeFader) = 0
                   /\ cue'.volumeFader.target = Unity ]_vars

RECURSIVE BusSum(_, _, _, _)
\* sample k of bus channel ch, summed over the cues ids rendered in the block o
BusSum(o, ids, ch, k) ==
    IF ids = {} THEN 0
    ELSE LET i == CHOOSE x \in ids : TRUE
         IN  o.cue[i][ch][k] + BusSum(o, ids \ {i}, ch, k)

\* C26: in each callback every device output sample equals the sum, over the
\* playing cues, of the cue's rendered bus signal routed through the output
\* patch, whose routing is one to one at unity.
C26_PipelineSums ==
    last.name = "audioDeviceIOCallback" =>
        \A dev \in DOMAIN out.device : \A k \in DOMAIN out.device[dev] :
            out.device[dev][k] =
                IF dev < BusWidth THEN BusSum(out, DOMAIN out.cue, dev, k) ELSE 0

\* the matrix a load leaves behind for a file of numChannels channels
IsDefaultRouting(m, numChannels) ==
    /\ m.numInputChannels = numChannels
    /\ DOMAIN m.crosspoints = 0..(numChannels - 1)
    /\ \A i \in 0..(numChannels - 1) : \A o \in 0..(m.numOutputChannels - 1) :
           m.crosspoints[i][o] = IF i = o /\ i < Min(numChannels, MAX_CUE_OUTPUTS) THEN Unity ELSE 0
    /\ \A i \in 0..(numChannels - 1) :
           m.inputLevels[i] = Unity /\ ~m.inputMutes[i] /\ ~m.inputSolos[i]
    /\ \A o \in 0..(m.numOutputChannels - 1) :
           m.outputLevels[o] = Unity /\ ~m.outputMutes[o] /\ ~m.outputSolos[o]

\* C27: after a successful load of a file with C channels the cue's matrix has
\* C inputs, unity on the diagonal below min(C, bus width), zero elsewhere,
\* unity trims and no mute or solo, whatever the routing was before the load.
C27_LoadInstallsDefaultRouting ==
    [][ (last'.name = "loadAudioFile" /\ last'.ret)
            => IsDefaultRouting(cue'.cueMatrix, FileChannels(cue'.filePath)) ]_vars

C27_Witness ==
    /\ last.name = "loadAudioFile" /\ last.ret /\ last.from = "Stopped"
    /\ cue.filePath = "stereo"
    /\ cue.cueMatrix.crosspoints[1][1] = Unity /\ cue.cueMatrix.crosspoints[0][1] = 0

\* C28: when play(startTime) completes while a render of the same cue is in
\* progress, the render's stale value does not overwrite the new cursor:
\* after both have finished the cursor lies between the start frame and the
\* start frame plus the block length.
C28_PlayNotLost ==
    (hist.pc = "idle" /\ last.name = "processAudio")
        => \A startFrames \in hist.played :
               cue.currentPosition \in startFrames..(startFrames + hist.numSamples)

\* C29: a render of a cue that is not Playing changes neither the cursor, the
\* state nor the fade gain, and its block holds only zero samples.
C29_RenderIdleCueNoOp ==
    [][ (last'.name = "processAudio" /\ cue.currentState # "Playing")
            => /\ cue'.currentPosition = cue.currentPosition
               /\ cue'.currentState = cue.currentState
               /\ cue'.volumeFader = cue.volumeFader
               /\ IsSilent(out'.cue[""]) ]_vars

C29_Witness ==
    /\ last.name = "processAudio" /\ last.from = "Paused"
    /\ cue.currentState = "Paused" /\ cue.currentPosition \in 1..(cue.numSamples - 1)
    /\ SV_value(cue.volumeFader) > 0
    /\ IsSilent(out.cue[""])

\* the frames a render of numSamples frames consumes from the cursor on
FramesConsumed(c, numSamples) == Min(numSamples, c.numSamples - c.currentPosition)

\* C30: each render of a Playing cue advances the cursor by exactly
\* min(numSamples, length - cursor) frames and emits zeros for the rest of the
\* block; with loop set, reaching the end wraps the cursor to 0 and the cue
\* stays Playing; without loop the cursor never advances past the length.
C30_EndOfFile ==
    [][ (last'.name = "processAudio" /\ cue.currentState = "Playing")
            => LET consumed == FramesConsumed(cue, last'.arg)
                   reached == cue.currentPosition + consumed
               IN  /\ cue'.currentPosition =
                          IF cue.loop /\ reached >= cue.numSamples THEN 0 ELSE reached
                   /\ \A ch \in DOMAIN out'.cue[""] : \A k \in DOMAIN out'.cue[""][ch] :
                          k > consumed => out'.cue[""][ch][k] = 0
                   /\ cue.loop => cue'.currentState = "Playing"
                   /\ ~cue.loop => cue'.currentPosition <= Max(cue.currentPosition, cue.numSamples) ]_vars

\* C31: a play() issued while a fade-out stop is pending supersedes it: the cue
\* is Playing with its play flag set and the gain target back at full gain;
\* from then on a render below the end of the file advances the cursor and
\* writes audio; and a render stops the cue only at the natural end of the
\* file, never because of the superseded fade.
C31_PlaySupersedesFade ==
    [][ /\ (last'.name = "play" /\ Cue_fadeStopPending(cue))
            => /\ cue'.currentState = "Playing" /\ cue'.shouldPlay
               /\ cue'.volumeFader.target = Unity
        /\ (last'.name = "processAudio" /\ hist.superseded /\ cue.currentState = "Playing")
            => /\ cue'.currentState = "Stopped" => (Cue_atEnd(cue) /\ ~cue.loop)
               /\ ~Cue_atEnd(cue)
                    => /\ cue'.currentState = "Playing"
                       /\ cue'.currentPosition > cue.currentPosition
                       /\ ~IsSilent(out'.cue[""]) ]_vars

\* C32: on each callback the dropout count goes up by exactly one if and only
\* if the time since the previous callback exceeds the expected block duration
\* by more than 10%; then the CPU estimate rises (up to its ceiling), otherwise
\* it decays toward zero and the dropout count is unchanged.
C32_DropoutCounting ==
    [][ last'.name = "audioDeviceIOCallback"
            => LET late == hist'.elapsed * 10 > BlockTicks * 11
               IN  /\ engine'.dropoutCount = engine.dropoutCount + (IF late THEN 1 ELSE 0)
                   /\ late => (engine'.cpuUsage > engine.cpuUsage \/ engine'.cpuUsage = 1000)
                   /\ ~late => /\ engine'.cpuUsage <= engine.cpuUsage
                                /\ engine'.cpuUsage >= 0
                                /\ engine.cpuUsage > 0 => engine'.cpuUsage < engine.cpuUsage ]_vars

\* C38: the CPU estimate stays within [0, 100] (here in tenths of a percent)
\* whatever the sequence of on-time and late callbacks, and the dropout count
\* never decreases except when a device start resets it to 0.
C38_CountersInRange ==
    [][ /\ engine'.cpuUsage \in 0..1000
        /\ engine'.dropoutCount < engine.dropoutCount
              => (last'.name = "audioDeviceAboutToStart" /\ engine'.dropoutCount = 0) ]_vars

\* the estimate is at its ceiling after more late callbacks than it takes to
\* get there
C38_Witness ==
    /\ last.name = "audioDeviceIOCallback"
    /\ engine.dropoutCount > 20 /\ engine.cpuUsage = 1000

\* C33: whenever the cue is Stopped and neither thread is inside an operation
\* on it, its cursor is 0, also when stop(0) ran while a render was under way.
C33_StoppedAtZero ==
    (hist.pc = "idle" /\ cue.currentState = "Stopped") => cue.currentPosition = 0

\* C34: between operations the cue's play flag is set if and only if its state
\* is Playing, after any sequence of play, stop (with or without a fade),
\* pause, resume and render.
C34_PlayFlagAgreesWithState ==
    [][ (/\ last'.name \in {"play", "stop", "pause", "resume", "processAudio"}
         /\ cue.shouldPlay <=> cue.currentState = "Playing")
            => (cue'.shouldPlay <=> cue'.currentState = "Playing") ]_vars

\* what the claim compares of a cue
Cue_outcome(c) == <<c.currentState, c.currentPosition, c.shouldPlay>>

\* C35: when pause(), resume() or stop() has run concurrently with a render that
\* reached the natural end, the cue's state, cursor and play flag are those of
\* the two executed one after the other, in one order or the other.
C35_SerialOutcome ==
    (hist.pc = "idle" /\ hist.ended > 0)
        => Cue_outcome(cue) \in
              { Cue_outcome(Cue_call(Cue_processAudio(hist.before, hist.ended).cue, hist.op)),
                Cue_outcome(Cue_processAudio(Cue_call(hist.before, hist.op), hist.ended).cue) }

\* C36: after any sequence of play(startTime), stop, pause, resume and render on
\* a loaded cue, whatever the start times, the cursor lies between 0 and the
\* length of the file in frames.
C36_CursorBounds ==
    Cue_isLoaded(cue) => cue.currentPosition \in 0..cue.numSamples

\* C37: a cue enters the registry only after its load has succeeded: no
\* registered cue is unloaded or in state Loading, so no cue the callback
\* renders is having its matrix resized.
C37_RegistryLoaded ==
    \A i \in DOMAIN cues :
        /\ cues[i].loaded
        /\ cues[i].currentState # "Loading"
        /\ cues[i].cueMatrix.numInputChannels = cues[i].numChannels
        /\ cues[i].numChannels > 0

\* a creation with a file that does not load was refused while a cue is registered
C37_Witness ==
    /\ last.name = "createAudioCue" /\ ~last.ret /\ last.path = "corrupt"
    /\ DOMAIN cues # {}

\* the buffer with a unit sample on one input channel and silence on the others
UnitOn(input) ==
    [ch \in 0..(BusWidth - 1) |-> [k \in 1..1 |-> IF ch = input THEN Unity ELSE 0]]

\* what processAudio makes of a unit sample on the input, on the output
AppliedGain(m, input, output) ==
    Mixer_processAudio(m, UnitOn(input), BusWidth, BusWidth, 1)[output][1]

\* C39: for every valid route and every setting of crosspoints, trims, mutes
\* and solos, calculateGain returns the gain processAudio applies to the
\* route, and returns zero exactly when processAudio skips the route.
C39_CalculateGainAgrees ==
    last.name = "MatrixMixer.calculateGain" =>
        /\ out.gain = AppliedGain(mixer, out.input, out.output)
        /\ out.gain = 0 <=> ~Mixer_mixesRoute(mixer, out.input, out.output)

\* a route open at unity that a solo on another input excludes
C39_Witness ==
    /\ last.name = "MatrixMixer.calculateGain"
    /\ out.gain = 0
    /\ Mixer_totalGain(mixer, out.input, out.output) = Unity
    /\ ~mixer.inputMutes[out.input] /\ ~mixer.outputMutes[out.output]
    /\ Mixer_anySoloedInputs(mixer) /\ ~mixer.inputSolos[out.input]

\* the call was given an index outside the patch matrix
OutsidePatch(l) ==
    \E k \in DOMAIN l.pairs :
        \/ l.pairs[k][1] \notin 0..(MAX_CUE_OUTPUTS - 1)
        \/ l.pairs[k][2] \notin 0..(MAX_DEVICE_OUTPUTS - 1)

\* C40: after any sequence of setPatchRouting, setDeviceOutputLevel, clear and
\* preset calls with any indices and levels, every patch gain and device output
\* level lies in [0, 4.0], and a call with an index outside the patch matrix
\* changes nothing.
C40_PatchBounds ==
    [][ /\ \A c \in 0..(MAX_CUE_OUTPUTS - 1) : \A d \in 0..(MAX_DEVICE_OUTPUTS - 1) :
              patch'.patchMatrix[c][d] \in 0..(4 * Unity)
        /\ \A d \in 0..(MAX_DEVICE_OUTPUTS - 1) :
              patch'.deviceOutputLevels[d] \in 0..(4 * Unity)
        /\ OutsidePatch(last') => patch' = patch ]_vars

\* C10: createCue with an id that is already registered fails and leaves the
\* registry as it is.
C10_DuplicateCreateFails ==
    [][ \A i \in CueIds :
           (last'.name = "createAudioCue" /\ last'.id = i /\ i \in DOMAIN cues)
               => ~last'.ret /\ cues' = cues ]_vars

====
